---- MODULE Spec2Model ----
(***************************************************************************)
(* Verification model of the retrieval-and-validation core of              *)
(* pinescript-ai: the BM25 scorer (src/lib/rag/bm25.ts), the RAG search    *)
(* orchestrator (lib/rag/search), the index build of                       *)
(* scripts/process-docs.ts and the static validator (src/lib/validator).   *)
(*                                                                         *)
(* Strings are TLA+ strings handled character by character (Len, SubSeq,   *)
(* \o), so tokenizing and pattern matching are computed, not assumed.      *)
(* JavaScript numbers are modelled in fixed point: a finite number is a    *)
(* multiple of 1/Scale, written <<n, d>> in lowest terms, and every        *)
(* operation rounds its exact result to the nearest multiple; NaN,         *)
(* +Infinity and -Infinity are kept apart.                                 *)
(***************************************************************************)
EXTENDS Integers, Sequences, FiniteSets, TLC

VARIABLES
    \* ---- scoreBM25 call (bm25.ts): the arguments and the returned value
    queryTerms, docTerms, idf, avgDl, k1, b, score, pcBM25,
    \* ---- process-docs: the files under data/raw that a run reads
    raw,
    \* ---- RAG: the four artifact files under data/pinescript-docs
    disk,
    \* ---- RAG: the module-level cache of lib/rag/search (lines 60-64)
    docsData, refsData, examplesData, indexData,
    \* ---- RAG: the searchRAG call being served and what it returned
    query, options, results, pcRAG,
    \* ---- validator: the validatePineScript call and what it returned
    code, version, findings, pcValidate,
    \* ---- /api/chat: the request being served, the deltas its provider
    \* stream has yet to yield, and the calls made to the reviewer
    request, stream, llmCalls,
    \* ---- /api/chat: the locals of start(controller) (route.ts 257-397)
    fullContent, generatedCode, allStaticResults, reviewResult,
    \* ---- /api/chat: the events enqueued on the response and the position
    \* of the handler
    events, pcChat

bm25Vars == <<queryTerms, docTerms, idf, avgDl, k1, b, score, pcBM25>>
cacheVars == <<docsData, refsData, examplesData, indexData>>
ragVars == <<raw, disk, docsData, refsData, examplesData, indexData, query, options, results, pcRAG>>

validateVars == <<code, version, findings, pcValidate>>

chatVars == <<request, stream, llmCalls, fullContent, generatedCode, allStaticResults,
              reviewResult, events, pcChat>>

vars == <<queryTerms, docTerms, idf, avgDl, k1, b, score, pcBM25,
          raw, disk, docsData, refsData, examplesData, indexData, query, options, results, pcRAG,
          code, version, findings, pcValidate,
          request, stream, llmCalls, fullContent, generatedCode, allStaticResults,
          reviewResult, events, pcChat>>

(***************************************************************************)
(* Generic sequence helpers                                                *)
(***************************************************************************)
Range(s) == { s[i] : i \in DOMAIN s }

RECURSIVE SeqsUpTo(_, _)
\* every sequence over S of length at most n
SeqsUpTo(S, n) ==
    IF n = 0 THEN { <<>> }
    ELSE LET shorter == SeqsUpTo(S, n - 1)
         IN  shorter \cup { Append(s, x) : s \in { t \in shorter : Len(t) = n - 1 }, x \in S }

Count(x, s) == Cardinality({ i \in DOMAIN s : s[i] = x })

\* the value v, e being evaluated before it: statements run in their order,
\* while an operand of an expression is evaluated where it is first read
Having(e, v) == IF e = e THEN v ELSE v

(***************************************************************************)
(* JavaScript numbers: <<n, d>> with d > 0 is the rational n/d;            *)
(* <<0, 0>> is NaN, <<1, 0>> is Infinity, <<-1, 0>> is -Infinity.          *)
(* NonNum stands for a value that is not a number and is not falsy (an     *)
(* inherited property such as Object.prototype.constructor, or the string  *)
(* it becomes when 1 is added to it).                                      *)
(***************************************************************************)
NaN == <<0, 0>>
Infinity == <<1, 0>>
NegInfinity == <<-1, 0>>
NonNum == <<0, -1>>
\* null, as JSON.parse gives it for a NaN that JSON.stringify wrote
Null == <<0, -2>>

Abs(n) == IF n < 0 THEN -n ELSE n

RECURSIVE GCD(_, _)
GCD(m, n) == IF n = 0 THEN m ELSE GCD(n, m % n)

Rat(n, d) ==
    LET g == GCD(Abs(n), Abs(d))
        sgn == IF d < 0 THEN -1 ELSE 1
    IN  <<(sgn * n) \div g, (sgn * d) \div g>>

Num(n) == <<n, 1>>

IsNaN(x) == x = NaN \/ x = NonNum
IsInf(x) == x[2] = 0 /\ x[1] # 0
IsFinite(x) == x[2] > 0
Sign(x) == IF x[1] > 0 THEN 1 ELSE IF x[1] < 0 THEN -1 ELSE 0

\* ToNumber of the values above: null is 0, a non-number is NaN
ToNumber(x) == IF x = Null THEN <<0, 1>> ELSE IF x = NonNum THEN NaN ELSE x

\* A finite number is a multiple of 1/Scale, written as a fraction in lowest
\* terms; an operation gives its exact result rounded to the nearest
\* multiple, as an operation on doubles gives the nearest double.
Scale == 10000

\* x in units of 1/Scale
Units(x) == x[1] * (Scale \div x[2])
FromUnits(u) == Rat(u, Scale)

\* n / d for n >= 0 and d > 0, rounded to the nearest integer
RoundDiv(n, d) == (n \div d) + (IF 2 * (n % d) >= d THEN 1 ELSE 0)

RECURSIVE ScaledDiv(_, _, _, _)
\* the integer nearest to acc * unit + r * unit / d, for 0 <= r < d and unit
\* a power of ten, by long division
ScaledDiv(r, d, unit, acc) ==
    IF unit = 1 THEN acc + (IF 2 * r >= d THEN 1 ELSE 0)
    ELSE ScaledDiv((r * 10) % d, d, unit \div 10, acc * 10 + ((r * 10) \div d))

AddNum(x, y) ==
    IF x = NaN \/ y = NaN THEN NaN
    ELSE IF IsInf(x) /\ IsInf(y) THEN (IF x = y THEN x ELSE NaN)
    ELSE IF IsInf(x) THEN x
    ELSE IF IsInf(y) THEN y
    ELSE FromUnits(Units(x) + Units(y))

\* JS x + y (a NonNum operand makes it a string concatenation: NonNum)
JsAdd(x, y) ==
    IF x = NonNum \/ y = NonNum THEN NonNum ELSE AddNum(ToNumber(x), ToNumber(y))

MulNum(x, y) ==
    IF x = NaN \/ y = NaN THEN NaN
    ELSE IF IsInf(x) \/ IsInf(y)
         THEN (IF Sign(x) * Sign(y) = 0 THEN NaN
               ELSE IF Sign(x) * Sign(y) > 0 THEN Infinity ELSE NegInfinity)
    ELSE LET ux == Abs(Units(x))
             uy == Abs(Units(y))
             \* ux * uy / Scale, whole and fractional parts multiplied apart
             u == (ux \div Scale) * uy + (ux % Scale) * (uy \div Scale)
                  + RoundDiv((ux % Scale) * (uy % Scale), Scale)
         IN  FromUnits(Sign(x) * Sign(y) * u)

\* JS x * y
JsMul(x, y) == MulNum(ToNumber(x), ToNumber(y))

NegNum(x) == <<-x[1], x[2]>>

\* JS x - y
JsSub(x, y) == AddNum(ToNumber(x), NegNum(ToNumber(y)))

\* the sign of a zero is not modelled: x / 0 has the sign of x
DivNum(x, y) ==
    IF x = NaN \/ y = NaN THEN NaN
    ELSE IF IsInf(x) /\ IsInf(y) THEN NaN
    ELSE IF IsInf(x) THEN (IF Sign(y) < 0 THEN NegNum(x) ELSE x)
    ELSE IF IsInf(y) THEN <<0, 1>>
    ELSE IF y[1] = 0
         THEN (IF x[1] = 0 THEN NaN ELSE IF x[1] > 0 THEN Infinity ELSE NegInfinity)
    ELSE LET ux == Abs(Units(x))
             uy == Abs(Units(y))
         IN  FromUnits(Sign(x) * Sign(y) * ScaledDiv(ux % uy, uy, Scale, ux \div uy))

\* JS x / y
JsDiv(x, y) == DivNum(ToNumber(x), ToNumber(y))

GtNum(x, y) ==
    /\ x # NaN
    /\ y # NaN
    /\ IF IsInf(x) \/ IsInf(y)
       THEN (x # y /\ (x = Infinity \/ y = NegInfinity))
       ELSE Units(x) > Units(y)

\* JS x > y: false as soon as an operand is NaN
JsGt(x, y) == GtNum(ToNumber(x), ToNumber(y))

\* JS x === y on numbers: NaN equals nothing
JsEq(x, y) == ~IsNaN(x) /\ ~IsNaN(y) /\ x = y

\* JS truthiness, as used by `v || 0`
Truthy(x) == x = NonNum \/ x \notin { NaN, <<0, 1>>, Null }

(***************************************************************************)
(* Strings and regular expressions.  A string is a TLA+ string; CharAt     *)
(* gives a one-character string.  Only ASCII is modelled.                  *)
(***************************************************************************)
CharAt(s, i) == SubSeq(s, i, i)

CharsOf(str) == { CharAt(str, i) : i \in 1..Len(str) }

LowerLetters == "abcdefghijklmnopqrstuvwxyz"
UpperLetters == "ABCDEFGHIJKLMNOPQRSTUVWXYZ"
Digits == "0123456789"

\* \w, \s and the characters `.` does not match
WordChars == CharsOf(LowerLetters) \cup CharsOf(UpperLetters) \cup CharsOf(Digits) \cup { "_" }
SpaceChars == { " ", "\t", "\n", "\r", "\f" }
LineTerminators == { "\n", "\r" }

\* String.prototype.toLowerCase, one character
LowerChar(c) ==
    IF c \in CharsOf(UpperLetters)
    THEN CharAt(LowerLetters, CHOOSE i \in 1..26 : CharAt(UpperLetters, i) = c)
    ELSE c

RECURSIVE MapChars(_, _, _)
\* the characters lo..hi of s, each lower-cased (halving keeps the
\* evaluation shallow)
MapChars(s, lo, hi) ==
    IF lo > hi THEN ""
    ELSE IF lo = hi THEN LowerChar(CharAt(s, lo))
    ELSE LET mid == (lo + hi) \div 2
         IN  MapChars(s, lo, mid) \o MapChars(s, mid + 1, hi)

toLowerCase(s) == MapChars(s, 1, Len(s))

\* Regular-expression syntax trees: [k |-> kind, v |-> operand]
Lit(str) == [k |-> "lit", v |-> str]          \* the characters of str
In(set) == [k |-> "in", v |-> set]            \* one character of the set
NotIn(set) == [k |-> "notin", v |-> set]      \* one character outside the set
Cat(rs) == [k |-> "cat", v |-> rs]            \* r1 r2 ... (a sequence)
Alt(rs) == [k |-> "alt", v |-> rs]            \* (?:r1|r2|...)
Star(r) == [k |-> "star", v |-> r]            \* r*
Plus(r) == [k |-> "plus", v |-> r]            \* r+
Opt(r) == [k |-> "opt", v |-> r]              \* r?
Cap(n, r) == [k |-> "cap", v |-> <<n, r>>]    \* the n-th capturing group (r)
NotBehind(r) == [k |-> "notbehind", v |-> r]  \* (?<!r)
WordB == [k |-> "wordb", v |-> 0]             \* \b
EndOfInput == [k |-> "end", v |-> 0]          \* $ (no m flag)
StartOfInput == [k |-> "start", v |-> 0]      \* ^ (no m flag)
LineStart == [k |-> "bol", v |-> 0]           \* ^ (m flag)
Ahead(r) == [k |-> "ahead", v |-> r]          \* (?=r)
AnyOrNewline == NotIn({})                     \* [\s\S]
WordCh == In(WordChars)                       \* \w
SpaceCh == In(SpaceChars)                     \* \s
AnyCh == NotIn(LineTerminators)               \* .

\* A thread of the matcher: where the match started (st), the position of
\* the next character to read (p), and the spans <<from, to>> of the two
\* capturing groups (<<0, 0>> when unset).
Thread(i) == [st |-> i, p |-> i, g1 |-> <<0, 0>>, g2 |-> <<0, 0>>]

IsWordAt(s, i) == i >= 1 /\ i <= Len(s) /\ CharAt(s, i) \in WordChars

\* the character ch is one of the class c
InClass(c, ch) == IF c.k = "in" THEN ch \in c.v ELSE ch \notin c.v

\* the position after the run of characters of the class c that starts at p
ClassRunEnd(c, s, p) ==
    CHOOSE e \in p..(Len(s) + 1) :
        /\ e = Len(s) + 1 \/ ~InClass(c, CharAt(s, e))
        /\ \A n \in p..(e - 1) : InClass(c, CharAt(s, n))

\* r* for r one character of a class: from each thread, every end of a run
\* of characters of the class that starts where the thread stands
RunClass(c, s, T) ==
    UNION { { [t EXCEPT !.p = q] : q \in t.p..ClassRunEnd(c, s, t.p) } : t \in T }

RECURSIVE Run(_, _, _)
RECURSIVE RunCat(_, _, _, _)
RECURSIVE RunStar(_, _, _, _)
\* the threads left after matching r from each thread of T: every way r can
\* match (backtracking explores exactly these)
Run(r, s, T) ==
    CASE r.k = "lit" ->
            { [t EXCEPT !.p = t.p + Len(r.v)] :
                t \in { u \in T : /\ u.p + Len(r.v) - 1 <= Len(s)
                                  /\ SubSeq(s, u.p, u.p + Len(r.v) - 1) = r.v } }
      [] r.k = "in" ->
            { [t EXCEPT !.p = t.p + 1] :
                t \in { u \in T : u.p <= Len(s) /\ CharAt(s, u.p) \in r.v } }
      [] r.k = "notin" ->
            { [t EXCEPT !.p = t.p + 1] :
                t \in { u \in T : u.p <= Len(s) /\ CharAt(s, u.p) \notin r.v } }
      [] r.k = "cat" -> RunCat(r.v, 1, s, T)
      [] r.k = "alt" -> UNION { Run(r.v[i], s, T) : i \in DOMAIN r.v }
      [] r.k = "star" -> IF r.v.k \in { "in", "notin" } THEN RunClass(r.v, s, T)
                         ELSE RunStar(r.v, s, T, T)
      [] r.k = "plus" -> LET first == Run(r.v, s, T)
                         IN  IF r.v.k \in { "in", "notin" } THEN RunClass(r.v, s, first)
                             ELSE RunStar(r.v, s, first, first)
      [] r.k = "opt" -> T \cup Run(r.v, s, T)
      [] r.k = "cap" ->
            UNION { { IF r.v[1] = 1 THEN [u EXCEPT !.g1 = <<t.p, u.p - 1>>]
                                    ELSE [u EXCEPT !.g2 = <<t.p, u.p - 1>>] :
                      u \in Run(r.v[2], s, { t }) } : t \in T }
      [] r.k = "notbehind" ->
            { t \in T : \A j \in 1..t.p :
                          t.p \notin { u.p : u \in Run(r.v, s, { Thread(j) }) } }
      [] r.k = "wordb" -> { t \in T : IsWordAt(s, t.p - 1) # IsWordAt(s, t.p) }
      [] r.k = "end" -> { t \in T : t.p = Len(s) + 1 }
      [] r.k = "start" -> { t \in T : t.p = 1 }
      [] r.k = "bol" -> { t \in T : t.p = 1 \/ CharAt(s, t.p - 1) \in LineTerminators }
      [] r.k = "ahead" -> { t \in T : Run(r.v, s, { t }) # {} }

RunCat(rs, i, s, T) ==
    IF i > Len(rs) \/ T = {} THEN T ELSE RunCat(rs, i + 1, s, Run(rs[i], s, T))

\* r*: frontier holds the threads found last, all those found so far
RunStar(r, s, frontier, all) ==
    LET new == Run(r, s, frontier) \ all
    IN  IF new = {} THEN all ELSE RunStar(r, s, new, all \cup new)

\* every match of r in s, from every start position
Matches(r, s) == Run(r, s, { Thread(i) : i \in 1..(Len(s) + 1) })

\* RegExp.prototype.test
Test(r, s) == Matches(r, s) # {}

\* The match the engine reports for a start position that has one: every
\* pattern of this code base has greedy quantifiers only, and alternatives
\* of which at most one lets the rest of the pattern succeed, so it is the
\* longest one.
Longest(T) == CHOOSE t \in T : \A u \in T : u.p <= t.p
Shortest(T) == CHOOSE t \in T : \A u \in T : t.p <= u.p

\* null, the result of a match that fails
NoMatch == [st |-> 0, p |-> 0, g1 |-> <<0, 0>>, g2 |-> <<0, 0>>]

\* the leftmost start of the matches of M
LeftmostStart(M) == CHOOSE i \in { t.st : t \in M } : \A t \in M : i <= t.st

\* the matches of M that start at st
StartingAt(M, st) == { t \in M : t.st = st }

\* the match reported among those of M, or null
FirstOf(M) == IF M = {} THEN NoMatch ELSE Longest(StartingAt(M, LeftmostStart(M)))
FirstLazyOf(M) == IF M = {} THEN NoMatch ELSE Shortest(StartingAt(M, LeftmostStart(M)))

\* String.prototype.match without the g flag: the leftmost match, or null
FirstMatch(r, s) == FirstOf(Matches(r, s))

\* the same for a pattern whose only free choice is a lazy quantifier: the
\* shortest match from the leftmost start
FirstMatchLazy(r, s) == FirstLazyOf(Matches(r, s))

\* the text of a capturing group of a match ("" when the group is unset)
Group1(s, m) == IF m.g1 = <<0, 0>> THEN "" ELSE SubSeq(s, m.g1[1], m.g1[2])
Group2(s, m) == IF m.g2 = <<0, 0>> THEN "" ELSE SubSeq(s, m.g2[1], m.g2[2])

\* the matches of M that start at i or later
StartingFrom(M, i) == { t \in M : t.st >= i }

\* lastIndex after the match m: an empty match advances by one
LastIndex(m) == IF m.p = m.st THEN m.p + 1 ELSE m.p

RECURSIVE MatchAllFrom(_, _, _, _)
RECURSIVE MatchAllNext(_, _, _, _)
\* the scan after the search from lastIndex gave m
MatchAllNext(M, s, acc, m) ==
    IF m = NoMatch THEN acc ELSE MatchAllFrom(M, s, LastIndex(m), Append(acc, m))

\* the matches a g-flag scan finds from position i on, left to right
MatchAllFrom(M, s, i, acc) == MatchAllNext(M, s, acc, FirstOf(StartingFrom(M, i)))

\* the substrings of s the matches ms cover
Matched(s, ms) == <<>> \o [i \in DOMAIN ms |-> SubSeq(s, ms[i].st, ms[i].p - 1)]

\* String.prototype.match with the g flag: the matched substrings in order
\* (<<>> stands for null)
MatchAll(r, s) == Matched(s, MatchAllFrom(Matches(r, s), s, 1, <<>>))

(***************************************************************************)
(* tokenize (lib/rag/search lines 93-99, scripts/process-docs.ts 321-327)  *)
(***************************************************************************)
TokenChars == CharsOf(LowerLetters) \cup CharsOf(Digits) \cup { "_", "." }

\* the end of the run of token characters that starts at i
RunEnd(text, i) ==
    CHOOSE j \in i..Len(text) :
        /\ \A n \in i..j : CharAt(text, n) \in TokenChars
        /\ (j = Len(text) \/ CharAt(text, j + 1) \notin TokenChars)

RECURSIVE TokensIn(_, _, _)
\* text is already lower-cased.  A character outside [a-z0-9_.] is replaced
\* by a space and the text is split at the runs of spaces: the pieces are
\* the maximal runs of token characters, of which those longer than one
\* character are kept.  TokensIn gives the pieces that start in lo..hi.
TokensIn(text, lo, hi) ==
    IF lo > hi THEN <<>>
    ELSE IF lo = hi
         THEN (IF /\ CharAt(text, lo) \in TokenChars
                  /\ (lo = 1 \/ CharAt(text, lo - 1) \notin TokenChars)
                  /\ RunEnd(text, lo) > lo
               THEN << SubSeq(text, lo, RunEnd(text, lo)) >>
               ELSE <<>>)
    ELSE LET mid == (lo + hi) \div 2
         IN  TokensIn(text, lo, mid) \o TokensIn(text, mid + 1, hi)

tokenize(text) == TokensIn(toLowerCase(text), 1, Len(text))

(***************************************************************************)
(* extractFunctionMentions (lib/rag/search lines 101-116)                  *)
(***************************************************************************)
\* /\b(?:ta|math|...|color)\.\w+/g
NamespaceCallPattern ==
    Cat(<< WordB,
           Alt(<< Lit("ta"), Lit("math"), Lit("str"), Lit("array"), Lit("matrix"),
                  Lit("map"), Lit("request"), Lit("ticker"), Lit("timeframe"),
                  Lit("chart"), Lit("runtime"), Lit("log"), Lit("strategy"),
                  Lit("input"), Lit("color") >>),
           Lit("."), Plus(WordCh) >>)

\* /\b(?:plot|hline|...|alert)\b/g
StandalonePattern ==
    Cat(<< WordB,
           Alt(<< Lit("plot"), Lit("hline"), Lit("fill"), Lit("bgcolor"),
                  Lit("barcolor"), Lit("plotshape"), Lit("indicator"),
                  Lit("strategy"), Lit("alert") >>),
           WordB >>)

extractFunctionMentions(q) ==
    MatchAll(NamespaceCallPattern, q) \o MatchAll(StandalonePattern, q)

(***************************************************************************)
(* scoreBM25 (src/lib/rag/bm25.ts)                                         *)
(***************************************************************************)
\* The keys every plain object inherits from Object.prototype: tf = {} and
\* the parsed idf table answer a lookup of one of them with a function or
\* an object, not with undefined.
ObjectPrototypeKeys ==
    { "constructor", "__proto__", "hasOwnProperty", "isPrototypeOf",
      "propertyIsEnumerable", "toLocaleString", "toString", "valueOf" }

\* tf[term] || 0 after the loop of lines 13-16 over docTerms
TermFreq(dTerms, term) ==
    IF term \in ObjectPrototypeKeys THEN NonNum
    ELSE Num(Count(term, dTerms))

\* idf[term] || 0 (line 23); idfTable is a function whose domain is the
\* table's own keys
TermIdf(idfTable, term) ==
    IF term \in DOMAIN idfTable
    THEN (IF Truthy(idfTable[term]) THEN idfTable[term] ELSE Num(0))
    ELSE IF term \in ObjectPrototypeKeys THEN NonNum
    ELSE Num(0)

\* one pass of the loop body of lines 19-27: the value added to score, or
\* Num(0) when the `continue` of line 21 is taken
TermContribution(term, dTerms, idfTable, avg, kk, bb) ==
    LET termFreq == TermFreq(dTerms, term)
        dl == Num(Len(dTerms))
        numerator == JsMul(termFreq, JsAdd(kk, Num(1)))
        norm == JsAdd(JsSub(Num(1), bb), JsMul(bb, JsDiv(dl, avg)))
        denominator == JsAdd(termFreq, JsMul(kk, norm))
        quotient == JsDiv(numerator, denominator)
    IN  Having(norm, Having(denominator, Having(quotient,
            JsMul(TermIdf(idfTable, term), quotient))))

RECURSIVE ScoreLoop(_, _, _, _, _, _, _)
\* the loop of lines 18-27; st holds the query position i the loop stands
\* at and the score so far
ScoreLoop(qTerms, st, dTerms, idfTable, avg, kk, bb) ==
    IF st.i > Len(qTerms) THEN st.score
    ELSE IF TermFreq(dTerms, qTerms[st.i]) = Num(0)
         THEN ScoreLoop(qTerms, [i |-> st.i + 1, score |-> st.score],
                        dTerms, idfTable, avg, kk, bb)
    ELSE ScoreLoop(qTerms,
                   [ i |-> st.i + 1,
                     score |-> JsAdd(st.score,
                                     TermContribution(qTerms[st.i], dTerms, idfTable,
                                                      avg, kk, bb)) ],
                   dTerms, idfTable, avg, kk, bb)

RECURSIVE Dedup(_)
\* the sequence s with every repeated element removed (first occurrences kept)
Dedup(s) ==
    IF s = <<>> THEN <<>>
    ELSE LET front == Dedup(SubSeq(s, 1, Len(s) - 1))
             last == s[Len(s)]
         IN  IF last \in Range(front) THEN front ELSE Append(front, last)

\* the scorer looping over the distinct query terms only
scoreDistinctTerms(qTerms, dTerms, idfTable, avg, kk, bb) ==
    IF Len(dTerms) = 0 THEN Num(0)
    ELSE ScoreLoop(Dedup(qTerms), [i |-> 1, score |-> Num(0)], dTerms, idfTable, avg, kk, bb)

scoreBM25(qTerms, dTerms, idfTable, avg, kk, bb) ==
    IF Len(dTerms) = 0 THEN Num(0)
    ELSE ScoreLoop(qTerms, [i |-> 1, score |-> Num(0)], dTerms, idfTable, avg, kk, bb)

DefaultK1 == Rat(3, 2)
DefaultB == Rat(3, 4)

(***************************************************************************)
(* The corpus extraction of scripts/process-docs.ts (lines 68-317)         *)
(***************************************************************************)
RECURSIVE JoinIn(_, _, _, _)
\* strs[lo..hi] joined, lo <= hi
JoinIn(strs, sep, lo, hi) ==
    IF lo = hi THEN strs[lo]
    ELSE LET mid == (lo + hi) \div 2
         IN  JoinIn(strs, sep, lo, mid) \o sep \o JoinIn(strs, sep, mid + 1, hi)

\* Array.prototype.join
Join(strs, sep) == IF Len(strs) = 0 THEN "" ELSE JoinIn(strs, sep, 1, Len(strs))

RECURSIVE FlatIn(_, _, _)
\* the sequences seqs[lo..hi] one after the other
FlatIn(seqs, lo, hi) ==
    IF lo > hi THEN <<>>
    ELSE IF lo = hi THEN seqs[lo]
    ELSE FlatIn(seqs, lo, (lo + hi) \div 2) \o FlatIn(seqs, (lo + hi) \div 2 + 1, hi)

\* what a loop pushes, perLine[n] being what it pushes for line n: the
\* findings of the lines from i on, in the order of the lines
PushedFrom(perLine, i) == FlatIn(<<>> \o perLine, i, Len(perLine))

\* String.prototype.slice(0, n)
SliceTo(str, n) == IF Len(str) <= n THEN str ELSE SubSeq(str, 1, n)

\* String.prototype.includes
Includes(str, sub) ==
    \E i \in 1..(Len(str) - Len(sub) + 1) : SubSeq(str, i, i + Len(sub) - 1) = sub

RECURSIVE TrimStart(_)
TrimStart(str) ==
    IF Len(str) > 0 /\ CharAt(str, 1) \in SpaceChars
    THEN TrimStart(SubSeq(str, 2, Len(str))) ELSE str

RECURSIVE TrimEnd(_)
TrimEnd(str) ==
    IF Len(str) > 0 /\ CharAt(str, Len(str)) \in SpaceChars
    THEN TrimEnd(SubSeq(str, 1, Len(str) - 1)) ELSE str

\* String.prototype.trim
trim(str) == TrimEnd(TrimStart(str))

\* the elements of seq at the positions of keep, in their order
Pick(seq, keep) ==
    <<>> \o [k \in 1..Cardinality(keep) |->
               seq[CHOOSE n \in keep : Cardinality({ j \in keep : j <= n }) = k]]

\* Set.prototype.add of items[i..]: a Set keeps its elements in insertion
\* order, each once
AddAll(kw, items, i) ==
    LET all == kw \o SubSeq(items, i, Len(items))
    IN  Pick(all, { n \in DOMAIN all :
                      n <= Len(kw) \/ \A j \in 1..(n - 1) : all[j] # all[n] })

\* line 68
estimateTokens(text) == (Len(text) + 3) \div 4

LowerOrUnderscore == In(CharsOf(LowerLetters) \cup { "_" })

\* /\b[a-z_]+\.[a-z_]+(?:\(\))?/g
IdentifierPattern ==
    Cat(<< WordB, Plus(LowerOrUnderscore), Lit("."), Plus(LowerOrUnderscore),
           Opt(Lit("()")) >>)

\* id.replace("()", ""): the pattern lets "()" stand at the end only
DropCallParens(id) ==
    IF Len(id) >= 2 /\ SubSeq(id, Len(id) - 1, Len(id)) = "()"
    THEN SubSeq(id, 1, Len(id) - 2) ELSE id

\* the pattern of line 78
KeywordFuncPattern ==
    Cat(<< WordB,
           Alt(<< Lit("ta"), Lit("math"), Lit("str"), Lit("array"), Lit("matrix"),
                  Lit("map"), Lit("request"), Lit("ticker"), Lit("timeframe"),
                  Lit("chart"), Lit("runtime"), Lit("log"), Lit("strategy"),
                  Lit("input"), Lit("color"), Lit("plot"), Lit("hline"), Lit("fill"),
                  Lit("indicator"), Lit("label"), Lit("line"), Lit("box"),
                  Lit("table") >>),
           Lit("."), Plus(WordCh) >>)

pineKw ==
    << "indicator", "strategy", "overlay", "input", "plot", "hline", "fill",
       "bgcolor", "barcolor", "alert", "alertcondition", "var", "varip", "series",
       "simple", "const", "export", "import", "method", "type", "switch", "for",
       "while", "if", "else" >>

\* the elements of words[i..] that text includes
IncludedIn(text, words, i) ==
    SelectSeq(SubSeq(words, i, Len(words)), LAMBDA w : Includes(text, w))

\* identifiers.map(id => id.replace("()", ""))
WithoutCallParens(identifiers) ==
    [i \in DOMAIN identifiers |-> DropCallParens(identifiers[i])]

extractKeywords(text) ==
    AddAll(AddAll(AddAll(<<>>, WithoutCallParens(MatchAll(IdentifierPattern, text)), 1),
                  MatchAll(KeywordFuncPattern, text), 1),
           IncludedIn(toLowerCase(text), pineKw, 1), 1)

\* /^(#{2,3})\s+(.+)/ (line 107)
HeaderPattern ==
    Cat(<< StartOfInput, Cap(1, Cat(<< Lit("##"), Opt(Lit("#")) >>)), Plus(SpaceCh),
           Cap(2, Plus(AnyCh)) >>)

ChunkTokenLimit == 800
SubChunkTokens == 700
MinChunkTokens == 20

RelPath(file) == IF file.dir = "." THEN file.name \o ".md" ELSE file.dir \o "/" \o file.name \o ".md"

\* the position of the first sep at or after i, or Len(str) + 1
NextSep(str, sep, i) ==
    CHOOSE j \in i..(Len(str) + 1) :
        /\ \A n \in i..(j - 1) : CharAt(str, n) # sep
        /\ (j = Len(str) + 1 \/ CharAt(str, j) = sep)

RECURSIVE PiecesIn(_, _, _, _)
\* the pieces of str between separators that start in lo..hi
PiecesIn(str, sep, lo, hi) ==
    IF lo > hi THEN <<>>
    ELSE IF lo = hi
         THEN (IF lo = 1 \/ CharAt(str, lo - 1) = sep
               THEN << SubSeq(str, lo, NextSep(str, sep, lo) - 1) >>
               ELSE <<>>)
    ELSE LET mid == (lo + hi) \div 2
         IN  PiecesIn(str, sep, lo, mid) \o PiecesIn(str, sep, mid + 1, hi)

\* String.prototype.split on a one-character separator
Split(str, sep) == PiecesIn(str, sep, 1, Len(str) + 1)

\* Array.prototype.slice(from, to) with 0-based bounds
Slice(arr, from, to) ==
    IF from >= Len(arr) THEN <<>>
    ELSE SubSeq(arr, from + 1, IF to < Len(arr) THEN to ELSE Len(arr))

\* a code fence, three backquotes in the files, written in ASCII
CodeFence == "~~~"

\* the positions where content.split(/(?=^#{2,3}\s)/m) cuts: the starts of
\* the lines, the first excepted, that begin with ## or ### and white space
HeaderCuts(content) ==
    { i \in 2..(Len(content) - 2) :
        /\ CharAt(content, i - 1) \in LineTerminators
        /\ SubSeq(content, i, i + 1) = "##"
        /\ \/ CharAt(content, i + 2) \in SpaceChars
           \/ /\ CharAt(content, i + 2) = "#"
              /\ i + 3 <= Len(content)
              /\ CharAt(content, i + 3) \in SpaceChars }

RECURSIVE PartsFrom(_, _, _)
\* the pieces of content from position p on, cut at cuts
PartsFrom(content, p, cuts) ==
    IF \A q \in cuts : q <= p THEN << SubSeq(content, p, Len(content)) >>
    ELSE LET q == CHOOSE c \in cuts : c > p /\ \A d \in cuts : d > p => c <= d
         IN  << SubSeq(content, p, q - 1) >> \o PartsFrom(content, q, cuts)

\* line 101
HeaderParts(content) == PartsFrom(content, 1, HeaderCuts(content))

\* subBuffer.split(fence).length - 1: the occurrences of the fence from
\* position i on, read from left to right without overlap
RECURSIVE FenceCount(_, _)
FenceCount(str, i) ==
    IF \A j \in i..(Len(str) - 2) : SubSeq(str, j, j + 2) # CodeFence THEN 0
    ELSE LET j == CHOOSE k \in i..(Len(str) - 2) :
                     /\ SubSeq(str, k, k + 2) = CodeFence
                     /\ \A n \in i..(k - 1) : SubSeq(str, n, n + 2) # CodeFence
         IN  1 + FenceCount(str, j + 3)

\* a chunk whose id does not count
ChunkOfZero(file, chunkId, title, text) ==
    [ id |-> "doc-0",
      type |-> "documentation",
      source |-> RelPath(file),
      section |-> IF file.dir = "." THEN "root" ELSE file.dir,
      title |-> title,
      content |-> trim(text),
      keywords |-> extractKeywords(text) ]

\* the chunk pushed at lines 117-125, 135-143 and 156-164
ChunkOf(file, chunkId, title, text) ==
    [ id |-> "doc-" \o ToString(chunkId),
      type |-> "documentation",
      source |-> RelPath(file),
      section |-> IF file.dir = "." THEN "root" ELSE file.dir,
      title |-> title,
      content |-> trim(text),
      keywords |-> extractKeywords(text) ]

\* the test of lines 133-134 on the sub-buffer
SubChunkDue(sb, large) ==
    \/ large /\ ~Includes(sb, CodeFence)
    \/ FenceCount(sb, 1) % 2 = 0 /\ large

RECURSIVE SubSplit(_, _, _, _, _, _)
RECURSIVE SubSplitLine(_, _, _, _, _, _)
\* lines 132-145 for line i, sb being the sub-buffer with the line added
SubSplitLine(lines, i, sb, file, title, chunks) ==
    IF SubChunkDue(sb, estimateTokens(sb) > SubChunkTokens)
    THEN SubSplit(lines, i + 1, "", file, title,
                  Append(chunks, ChunkOf(file, Len(chunks), title, sb)))
    ELSE SubSplit(lines, i + 1, sb, file, title, chunks)

\* the loop of lines 131-146 from line i of the part on
SubSplit(lines, i, subBuffer, file, title, chunks) ==
    IF i > Len(lines) THEN [subBuffer |-> subBuffer, chunks |-> chunks]
    ELSE SubSplitLine(lines, i, subBuffer \o lines[i] \o "\n", file, title, chunks)

RECURSIVE ChunkParts(_, _, _, _)
\* the loop of lines 106-153 from part i on; st holds buffer, currentTitle
\* and the chunks pushed so far (chunkId is their number)
\* lines 107-110: the title after the part, headerMatch being its match
TitleAfter(part, headerMatch, st) ==
    IF headerMatch # NoMatch THEN trim(Group2(part, headerMatch)) ELSE st.currentTitle

\* lines 129-150: the state after the sub-split sub of a part that came
\* with an empty buffer
AfterSubSplit(sub, currentTitle, st) ==
    [ buffer |-> IF trim(sub.subBuffer) # "" THEN sub.subBuffer ELSE st.buffer,
      currentTitle |-> currentTitle, chunks |-> sub.chunks ]

RECURSIVE ChunkPart(_, _, _, _, _, _)
\* lines 112-152 for part i, tokens being the estimate of buffer + part,
\* and the parts after it
ChunkPart(file, parts, i, currentTitle, tokens, st) ==
    IF tokens > ChunkTokenLimit /\ st.buffer # ""
    THEN ChunkParts(file, parts, i + 1,
            [ buffer |-> parts[i], currentTitle |-> currentTitle,
              chunks |-> Append(st.chunks,
                                ChunkOf(file, Len(st.chunks), currentTitle, st.buffer)) ])
    ELSE IF tokens > ChunkTokenLimit
    THEN ChunkParts(file, parts, i + 1,
            AfterSubSplit(SubSplit(Split(parts[i], "\n"), 1, "", file, currentTitle,
                                   st.chunks),
                          currentTitle, st))
    ELSE ChunkParts(file, parts, i + 1,
            [ buffer |-> st.buffer \o parts[i], currentTitle |-> currentTitle,
              chunks |-> st.chunks ])

ChunkParts(file, parts, i, st) ==
    IF i > Len(parts) THEN st
    ELSE ChunkPart(file, parts, i,
                   TitleAfter(parts[i], FirstMatch(HeaderPattern, parts[i]), st),
                   estimateTokens(st.buffer \o parts[i]), st)

RECURSIVE ChunkFiles(_, _, _)
\* the loop of lines 95-166 from file i on
RECURSIVE ChunkFile(_, _, _)
\* lines 155-165 for file i, st being the state after its parts, and the
\* files after it
ChunkFile(files, i, st) ==
    IF trim(st.buffer) # "" /\ estimateTokens(st.buffer) > MinChunkTokens
    THEN ChunkFiles(files, i + 1,
            Append(st.chunks,
                   ChunkOf(files[i], Len(st.chunks), st.currentTitle, st.buffer)))
    ELSE ChunkFiles(files, i + 1, st.chunks)

ChunkFiles(files, i, chunks) ==
    IF i > Len(files) THEN chunks
    ELSE ChunkFile(files, i,
                   ChunkParts(files[i], HeaderParts(files[i].text), 1,
                              [ buffer |-> "", currentTitle |-> files[i].name,
                                chunks |-> chunks ]))

processDocChunks(files) == ChunkFiles(files, 1, <<>>)

\* /^## (\S+)/
FunctionHeaderPattern ==
    Cat(<< StartOfInput, Lit("## "), Cap(1, Plus(NotIn(SpaceChars))) >>)

\* (?=\n###|\n---|\n$)
SectionEnd ==
    Ahead(Alt(<< Lit("\n###"), Lit("\n---"), Cat(<< Lit("\n"), EndOfInput >>) >>))

\* /^## .+\n\n([\s\S]*?)(?=\n###|\n---|\n$)/
DescriptionPattern ==
    Cat(<< StartOfInput, Lit("## "), Plus(AnyCh), Lit("\n\n"),
           Cap(1, Star(AnyOrNewline)), SectionEnd >>)

\* /### Returns\n([\s\S]*?)(?=\n###|\n---|\n$)/
ReturnsPattern ==
    Cat(<< Lit("### Returns\n"), Cap(1, Star(AnyOrNewline)), SectionEnd >>)

ExampleKept == 500

\* lines 190-229 for one section of the file of a namespace; the sections
\* hold no fenced code block, so the pattern of line 211 finds no example
FunctionRefOf(namespace, section, refId) ==
    LET headerMatch == FirstMatch(FunctionHeaderPattern, section)
        funcName == DropCallParens(Group1(section, headerMatch))
        fullName == IF Includes(funcName, ".") THEN funcName
                    ELSE namespace \o "." \o funcName
        descMatch == FirstMatchLazy(DescriptionPattern, section)
        description == IF descMatch = NoMatch THEN ""
                       ELSE Split(trim(Group1(section, descMatch)), "\n")[1]
        returnsMatch == FirstMatchLazy(ReturnsPattern, section)
        example == ""
    IN  [ id |-> "ref-" \o ToString(refId),
          type |-> "reference",
          namespace |-> namespace,
          function |-> fullName,
          signature |-> fullName \o "(...)",
          description |-> IF description # "" THEN description
                          ELSE trim(Join(Slice(Split(section, "\n"), 1, 3), " ")),
          params |-> <<>>,
          returns |-> IF returnsMatch = NoMatch THEN ""
                      ELSE trim(Group1(section, returnsMatch)),
          example |-> SliceTo(example, ExampleKept),
          keywords |-> <<fullName, namespace>> \o extractKeywords(section) ]

RECURSIVE RefSections(_, _, _, _)
\* the loop of lines 190-229 over the sections of one file
RefSections(namespace, sections, i, refs) ==
    IF i > Len(sections) THEN refs
    ELSE IF FirstMatch(FunctionHeaderPattern, sections[i]) = NoMatch
    THEN RefSections(namespace, sections, i + 1, refs)
    ELSE RefSections(namespace, sections, i + 1,
                     Append(refs, FunctionRefOf(namespace, sections[i], Len(refs))))

RECURSIVE RefFiles(_, _, _)
\* the loop of lines 182-230 over the files of reference/functions, each
\* given as the sections the split of line 188 cuts it into
RefFiles(files, i, refs) ==
    IF i > Len(files) THEN refs
    ELSE RefFiles(files, i + 1, RefSections(files[i].name, files[i].sections, 1, refs))

\* lines 241-260 for one section of a flat reference file
FlatRefOf(namespace, section, refId) ==
    LET name == DropCallParens(Group1(section, FirstMatch(FunctionHeaderPattern, section)))
        descMatch == FirstMatchLazy(DescriptionPattern, section)
    IN  [ id |-> "ref-" \o ToString(refId),
          type |-> "reference",
          namespace |-> namespace,
          function |-> name,
          signature |-> name,
          description |-> IF descMatch = NoMatch THEN ""
                          ELSE Split(trim(Group1(section, descMatch)), "\n")[1],
          params |-> <<>>,
          returns |-> "",
          example |-> "",
          keywords |-> <<name, namespace>> \o extractKeywords(section) ]

RECURSIVE FlatSections(_, _, _, _)
\* the loop of lines 241-260 over the sections of one flat file
FlatSections(namespace, sections, i, refs) ==
    IF i > Len(sections) THEN refs
    ELSE IF FirstMatch(FunctionHeaderPattern, sections[i]) = NoMatch
    THEN FlatSections(namespace, sections, i + 1, refs)
    ELSE FlatSections(namespace, sections, i + 1,
                      Append(refs, FlatRefOf(namespace, sections[i], Len(refs))))

RECURSIVE FlatFiles(_, _, _)
\* the loop of lines 235-261 over the flat files that exist (line 236), in
\* the order of the list of lines 229-233
FlatFiles(files, i, refs) ==
    IF i > Len(files) THEN refs
    ELSE FlatFiles(files, i + 1, FlatSections(files[i].name, files[i].sections, 1, refs))

\* lines 173-264: the return of line 176 when reference/functions does not
\* exist, else the function files and then the flat files
extractFunctionRefs(tree) ==
    IF ~tree.funcDir THEN <<>>
    ELSE FlatFiles(tree.flat, 1, RefFiles(tree.functions, 1, <<>>))

\* /\/\/@version=(\d+)/
VersionPattern == Cat(<< Lit("//@version="), Cap(1, Plus(In(CharsOf(Digits)))) >>)

Quotes == { "\"", "'" }

\* /^(indicator|strategy|library)\s*\(\s*["']([^"']+)["']/m
ScriptTypePattern ==
    Cat(<< LineStart, Cap(1, Alt(<< Lit("indicator"), Lit("strategy"), Lit("library") >>)),
           Star(SpaceCh), Lit("("), Star(SpaceCh), In(Quotes),
           Cap(2, Plus(NotIn(Quotes))), In(Quotes) >>)

builtins ==
    << "plot", "hline", "fill", "bgcolor", "barcolor", "plotshape", "plotchar",
       "plotarrow", "plotcandle", "alert", "alertcondition" >>

\* new RegExp(`\\b${b}\\s*\\(`)
BuiltinCallPattern(name) == Cat(<< WordB, Lit(name), Star(SpaceCh), Lit("(") >>)

RECURSIVE CalledBuiltins(_, _)
CalledBuiltins(text, i) ==
    IF i > Len(builtins) THEN <<>>
    ELSE (IF Test(BuiltinCallPattern(builtins[i]), text) THEN <<builtins[i]>> ELSE <<>>)
         \o CalledBuiltins(text, i + 1)

ScriptCodeKept == 3000

\* basename(file, ".pine")
ScriptBaseName(name) ==
    IF Len(name) >= 5 /\ SubSeq(name, Len(name) - 4, Len(name)) = ".pine"
    THEN SubSeq(name, 1, Len(name) - 5) ELSE name

\* lines 273-313 for one file; path holds the components of its path
\* relative to RAW_SCRIPTS
ExampleScriptOf(file, scriptId) ==
    LET text == file.code
        versionMatch == FirstMatch(VersionPattern, text)
        ver == IF versionMatch = NoMatch THEN "unknown"
               ELSE "v" \o Group1(text, versionMatch)
        typeMatch == FirstMatch(ScriptTypePattern, text)
        scriptType == IF typeMatch = NoMatch THEN "indicator" ELSE Group1(text, typeMatch)
        title == IF typeMatch = NoMatch THEN ScriptBaseName(file.path[Len(file.path)])
                 ELSE Group2(text, typeMatch)
        category == IF Len(file.path) > 2 THEN file.path[2]
                    ELSE IF Len(file.path) > 1 THEN file.path[1] ELSE "general"
        funcsUsed == AddAll(AddAll(<<>>, MatchAll(NamespaceCallPattern, text), 1),
                            CalledBuiltins(text, 1), 1)
    IN  [ id |-> "script-" \o ToString(scriptId),
          type |-> "example",
          category |-> category,
          title |-> title,
          version |-> ver,
          code |-> SliceTo(text, ScriptCodeKept),
          functions_used |-> funcsUsed,
          keywords |-> <<toLowerCase(title), category, scriptType, ver>>
                       \o funcsUsed \o extractKeywords(text) ]

indexExampleScripts(files) ==
    <<>> \o [i \in DOMAIN files |-> ExampleScriptOf(files[i], i - 1)]

(***************************************************************************)
(* buildBM25Index and main (scripts/process-docs.ts lines 329-402)         *)
(***************************************************************************)
ExampleCodeIndexed == 1000

\* the term lists of lines 336-353
DocChunkTerms(doc) ==
    tokenize(Join(<<doc.title, doc.content>> \o doc.keywords, " "))

FunctionRefTerms(ref) ==
    tokenize(Join(<<ref.function, ref.signature, ref.description, ref.returns,
                    ref.example>> \o ref.keywords, " "))

ExampleScriptTerms(ex) ==
    tokenize(Join(<<ex.title, ex.category, SliceTo(ex.code, ExampleCodeIndexed)>>
                  \o ex.keywords, " "))

RECURSIVE AtanhSeries(_, _, _, _)
\* z + z^3/3 + z^5/5 + ... in units of 1/Scale, z = zs/Scale, from the
\* term pow = z^n on
AtanhSeries(zs, pow, n, acc) ==
    IF pow = 0 THEN acc
    ELSE AtanhSeries(zs, (((pow * zs) \div Scale) * zs) \div Scale, n + 2,
                     acc + (pow \div n))

\* Math.log of a positive rational, computed as 2 atanh((x-1)/(x+1)) in
\* fixed point and rounded to 1/100; NaN for NaN
MathLog(x) ==
    IF ~IsFinite(x) \/ x[1] <= 0 THEN NaN
    ELSE LET zs == ((x[1] - x[2]) * Scale) \div (x[1] + x[2])
             twice == 2 * AtanhSeries(Abs(zs), Abs(zs), 1, 0)
             hundredths == (twice + 50) \div 100
         IN  Rat(IF zs < 0 THEN -hundredths ELSE hundredths, 100)

\* df[term] after the loop of lines 358-363: the number of documents whose
\* term list holds the term; for a key df = {} inherits, (df[term] || 0) + 1
\* is a string
DocFreq(documents, term) ==
    IF term \in ObjectPrototypeKeys THEN NonNum
    ELSE <<Cardinality({ i \in DOMAIN documents : term \in Range(documents[i].terms) }), 1>>

\* line 367
IdfOf(totalDocs, count) ==
    MathLog(JsAdd(JsDiv(JsAdd(JsSub(<<totalDocs, 1>>, count), <<1, 2>>),
                        JsAdd(count, <<1, 2>>)),
                  <<1, 1>>))

RECURSIVE SumLens(_, _)
SumLens(documents, i) ==
    IF i > Len(documents) THEN 0 ELSE Len(documents[i].terms) + SumLens(documents, i + 1)

\* count + 0.5 on a string count is a string, so the quotient is NaN
IdfEntry(totalDocs, count) ==
    IF count = NonNum THEN NaN ELSE IdfOf(totalDocs, count)

\* lines 333-353: one entry per chunk, reference and example, in this order
IndexedDocuments(docs, refs, examples) ==
    [i \in DOMAIN docs |-> [id |-> docs[i].id, terms |-> DocChunkTerms(docs[i])]]
    \o [i \in DOMAIN refs |-> [id |-> refs[i].id, terms |-> FunctionRefTerms(refs[i])]]
    \o [i \in DOMAIN examples |->
            [id |-> examples[i].id, terms |-> ExampleScriptTerms(examples[i])]]

RECURSIVE AllTerms(_, _, _)
\* the terms of the documents lo..hi, in their order
AllTerms(documents, lo, hi) ==
    IF lo > hi THEN <<>>
    ELSE IF lo = hi THEN documents[lo].terms
    ELSE LET mid == (lo + hi) \div 2
         IN  AllTerms(documents, lo, mid) \o AllTerms(documents, mid + 1, hi)

\* the keys of df, each as often as it is met: an assignment to __proto__
\* creates no entry for Object.entries(df)
DfKeys(documents) ==
    SelectSeq(AllTerms(documents, 1, Len(documents)), LAMBDA t : t # "__proto__")

RECURSIVE IdfEntries(_, _, _, _, _)
\* the loop of lines 365-368 over keys[lo..hi], lo <= hi
IdfEntries(keys, lo, hi, documents, totalDocs) ==
    IF lo = hi THEN keys[lo] :> IdfEntry(totalDocs, DocFreq(documents, keys[lo]))
    ELSE LET mid == (lo + hi) \div 2
         IN  IdfEntries(keys, lo, mid, documents, totalDocs)
                @@ IdfEntries(keys, mid + 1, hi, documents, totalDocs)

\* an object without keys
EmptyObject == [t \in {} |-> NaN]

\* lines 355-373 for totalDocs documents
IndexOver(documents, totalDocs) ==
    LET keys == DfKeys(documents)
    IN  [ documents |-> documents,
          idf |-> IF keys = <<>> THEN EmptyObject
                  ELSE IdfEntries(keys, 1, Len(keys), documents, totalDocs),
          avgDl |-> JsDiv(<<SumLens(documents, 1), 1>>, <<totalDocs, 1>>),
          totalDocs |-> totalDocs ]

\* the build with a document count that is never 0, as a guard against the
\* division of line 371 would make it
buildBM25IndexGuarded(docs, refs, examples) ==
    LET documents == IndexedDocuments(docs, refs, examples)
    IN  IndexOver(documents, IF Len(documents) = 0 THEN 1 ELSE Len(documents))

buildBM25Index(docs, refs, examples) ==
    LET documents == IndexedDocuments(docs, refs, examples)
    IN  IndexOver(documents, Len(documents))

\* JSON.stringify then JSON.parse of a number: NaN and the infinities are
\* written as null
JsonNumber(x) == IF IsFinite(x) THEN x ELSE Null

RECURSIVE JsonEntries(_, _, _, _)
\* the entries of idf for keys[lo..hi], lo <= hi, as JSON keeps them
JsonEntries(idfOf, keys, lo, hi) ==
    IF lo = hi THEN keys[lo] :> JsonNumber(idfOf[keys[lo]])
    ELSE LET mid == (lo + hi) \div 2
         IN  JsonEntries(idfOf, keys, lo, mid) @@ JsonEntries(idfOf, keys, mid + 1, hi)

\* the keys of index.idf are those of df
JsonIndex(index) ==
    [ documents |-> index.documents,
      idf |-> LET keys == DfKeys(index.documents)
              IN  IF keys = <<>> THEN EmptyObject
                  ELSE JsonEntries(index.idf, keys, 1, Len(keys)),
      avgDl |-> JsonNumber(index.avgDl),
      totalDocs |-> index.totalDocs ]

\* a file as writeFileSync leaves it
Written(data) == [exists |-> TRUE, parses |-> TRUE, data |-> data]

\* main(): the four files written from the raw files; tree.docs are the .md
\* files of RAW_DOCS in directory order, tree.functions those of them under
\* reference/functions (tree.funcDir: the directory exists), tree.flat those
\* of variables.md, constants.md and types.md that exist, tree.scripts the
\* .pine files of RAW_SCRIPTS
\* lines 391-402: the four files written from the three collections
WriteFiles(docChunks, funcRefs, examples) ==
    [ docs |-> Written(docChunks), refs |-> Written(funcRefs),
      examples |-> Written(examples),
      index |-> Written(JsonIndex(buildBM25Index(docChunks, funcRefs, examples))) ]

main(tree) ==
    WriteFiles(processDocChunks(tree.docs), extractFunctionRefs(tree),
               indexExampleScripts(tree.scripts))

(***************************************************************************)
(* loadData and searchRAG (lib/rag/search lines 60-91 and 118-202)         *)
(***************************************************************************)
\* a file that does not exist
Missing == [exists |-> FALSE, parses |-> FALSE, data |-> <<>>]

\* a file whose text JSON.parse rejects
Unparsable == [exists |-> TRUE, parses |-> FALSE, data |-> <<>>]

\* a cache variable: null, or the value loaded
JsNull == [null |-> TRUE, value |-> <<>>]
Loaded(v) == [null |-> FALSE, value |-> v]

EmptyIndex == [documents |-> <<>>, idf |-> <<>>, avgDl |-> <<0, 1>>, totalDocs |-> 0]

\* readFileSync and JSON.parse of line 69: the value, or an exception for a
\* file that does not exist or does not parse
ReadAndParse(file) ==
    IF file.exists /\ file.parses THEN [threw |-> FALSE, null |-> FALSE, value |-> file.data]
    ELSE [threw |-> TRUE, null |-> TRUE, value |-> <<>>]

\* loadJson without the try statement: the exception leaves the function
loadJsonUncaught(file) == ReadAndParse(file)

\* loadJson: the catch clause of lines 70-72 returns null
loadJson(file) ==
    IF ReadAndParse(file).threw THEN [threw |-> FALSE, null |-> TRUE, value |-> <<>>]
    ELSE ReadAndParse(file)

\* loadJson(file) || fallback, for a call that returned: what main() writes
\* is an array or an object, never falsy
LoadOr(file, fallback) ==
    IF loadJson(file).null THEN Loaded(fallback) ELSE Loaded(loadJson(file).value)

\* the assignments of lines 78-86 in order: an exception leaves the
\* variables not yet assigned as they were
LoadAll(files, cache) ==
    LET t1 == loadJson(files.docs).threw
        t2 == t1 \/ loadJson(files.refs).threw
        t3 == t2 \/ loadJson(files.examples).threw
        t4 == t3 \/ loadJson(files.index).threw
    IN  [ docsData |-> IF t1 THEN cache.docsData ELSE LoadOr(files.docs, <<>>),
          refsData |-> IF t2 THEN cache.refsData ELSE LoadOr(files.refs, <<>>),
          examplesData |-> IF t3 THEN cache.examplesData ELSE LoadOr(files.examples, <<>>),
          indexData |-> IF t4 THEN cache.indexData ELSE LoadOr(files.index, EmptyIndex),
          threw |-> t4 ]

\* loadData without the test of line 76: the files are read on every call
loadDataEveryCall(files, cache) == LoadAll(files, cache)

\* the cache after loadData(): left alone once docsData is set (an array,
\* even an empty one, is truthy)
loadData(files, cache) ==
    IF ~cache.docsData.null THEN cache
    ELSE LoadAll(files, cache)

DefaultMaxDocs == 3
DefaultMaxRefs == 5
DefaultMaxExamples == 2

\* the destructuring of line 126: options is a record of the properties
\* given, and a default applies to a property that is not
OrDefault(opts, key, d) == IF key \in DOMAIN opts THEN opts[key] ELSE d

BoostFactor == <<3, 2>>

RECURSIVE BoostLoop(_, _, _)
\* the loop of lines 138-142; st holds the position i it stands at and the
\* score so far
BoostLoop(fnTerms, st, terms) ==
    IF st.i > Len(fnTerms) THEN st.score
    ELSE IF fnTerms[st.i] \in Range(terms)
         THEN BoostLoop(fnTerms, [i |-> st.i + 1, score |-> JsMul(st.score, BoostFactor)],
                        terms)
    ELSE BoostLoop(fnTerms, [i |-> st.i + 1, score |-> st.score], terms)

\* lines 138-142: one multiplication per term of the mention found in terms
BoostTerms(fnTerms, i, terms, sc) == BoostLoop(fnTerms, [i |-> i, score |-> sc], terms)

\* a boost that stops at the first mention
BoostFirstMention(mentions, i, terms, sc) ==
    IF i > Len(mentions) THEN sc
    ELSE BoostTerms(tokenize(mentions[i]), 1, terms, sc)

RECURSIVE BoostMentions(_, _, _, _)
\* lines 136-143
BoostMentions(mentions, i, terms, sc) ==
    IF i > Len(mentions) THEN sc
    ELSE BoostMentions(mentions, i + 1, terms,
                       BoostTerms(tokenize(mentions[i]), 1, terms, sc))

\* lines 133-143: the score of one indexed document
\* lines 136-143 on the score of line 134
Boosted(mentions, terms, sc) == Having(sc, BoostMentions(mentions, 1, terms, sc))

DocScore(qTerms, mentions, doc, index) ==
    Boosted(mentions, doc.terms,
            scoreBM25(qTerms, doc.terms, index.idf, index.avgDl, DefaultK1, DefaultB))

\* lines 131-148: the documents of positive score, in index order
ScoreAll(qTerms, mentions, index, i, acc) ==
    acc \o SelectSeq([j \in 1..(Len(index.documents) + 1 - i) |->
                        [ id |-> index.documents[i + j - 1].id,
                          score |-> DocScore(qTerms, mentions, index.documents[i + j - 1],
                                             index) ]],
                     LAMBDA e : JsGt(e.score, <<0, 1>>))

\* the comparator of line 150 puts y before x when y.score - x.score < 0
Before(x, y) == JsGt(x.score, y.score)

RECURSIVE InsertSorted(_, _, _)
\* x placed after every element it does not come before
InsertSorted(sorted, x, i) ==
    IF i > Len(sorted) THEN Append(sorted, x)
    ELSE IF Before(x, sorted[i])
         THEN SubSeq(sorted, 1, i - 1) \o <<x>> \o SubSeq(sorted, i, Len(sorted))
    ELSE InsertSorted(sorted, x, i + 1)

\* the scored list left in index order (no call of sort)
LeftUnsorted(scored, i, acc) == scored

RECURSIVE SortByScore(_, _, _)
\* Array.prototype.sort with the comparator of line 150: stable, descending
SortByScore(scored, i, acc) ==
    IF i > Len(scored) THEN acc
    ELSE IF acc = <<>> THEN SortByScore(scored, i + 1, << scored[i] >>)
    ELSE SortByScore(scored, i + 1, InsertSorted(acc, scored[i], 1))

\* Map.has and Map.get of the maps of lines 153-155: the last entry with
\* the id
MapHas(entries, id) == \E i \in DOMAIN entries : entries[i].id = id

MapGet(entries, id) ==
    entries[CHOOSE i \in DOMAIN entries :
                /\ entries[i].id = id
                /\ \A j \in DOMAIN entries : entries[j].id = id => j <= i]

\* the content strings of lines 172, 180-182 and 194 (the dash of line 180
\* is written in ASCII)

DocContent(doc) == "### " \o doc.title \o "\n" \o doc.content

RefContent(ref) ==
    "**" \o ref.function \o "** -- " \o ref.description
    \o (IF ref.returns # "" THEN "\nReturns: " \o ref.returns ELSE "")
    \o (IF ref.example # "" THEN "\nExample:\n" \o CodeFence \o "pine\n" \o ref.example \o "\n" \o CodeFence
        ELSE "")

ExampleContent(ex) == "// " \o ex.title \o " (" \o ex.category \o ")\n" \o ex.code

RECURSIVE CollectUncapped(_, _, _, _, _, _)
\* the walk without the counters: every scored entry found in a map
CollectUncapped(scored, i, cache, m, c, acc) ==
    IF i > Len(scored) THEN acc
    ELSE LET id == scored[i].id
             sc == scored[i].score
         IN  CollectUncapped(scored, i + 1, cache, m, c,
                IF MapHas(cache.docsData.value, id)
                THEN Append(acc, [id |-> id, type |-> "documentation", score |-> sc,
                                  content |-> DocContent(MapGet(cache.docsData.value, id))])
                ELSE IF MapHas(cache.refsData.value, id)
                THEN Append(acc, [id |-> id, type |-> "reference", score |-> sc,
                                  content |-> RefContent(MapGet(cache.refsData.value, id))])
                ELSE IF MapHas(cache.examplesData.value, id)
                THEN Append(acc, [id |-> id, type |-> "example", score |-> sc,
                                  content |-> ExampleContent(MapGet(cache.examplesData.value, id))])
                ELSE acc)

RECURSIVE CollectUntilOneCap(_, _, _, _, _, _)
\* the walk that stops as soon as one category has reached its cap
CollectUntilOneCap(scored, i, cache, m, c, acc) ==
    IF i > Len(scored) THEN acc
    ELSE IF c[1] >= m[1] \/ c[2] >= m[2] \/ c[3] >= m[3] THEN acc
    ELSE LET id == scored[i].id
             sc == scored[i].score
         IN  IF MapHas(cache.docsData.value, id)
             THEN CollectUntilOneCap(scored, i + 1, cache, m, <<c[1] + 1, c[2], c[3]>>,
                     Append(acc, [id |-> id, type |-> "documentation", score |-> sc,
                                  content |-> DocContent(MapGet(cache.docsData.value, id))]))
             ELSE IF MapHas(cache.refsData.value, id)
             THEN CollectUntilOneCap(scored, i + 1, cache, m, <<c[1], c[2] + 1, c[3]>>,
                     Append(acc, [id |-> id, type |-> "reference", score |-> sc,
                                  content |-> RefContent(MapGet(cache.refsData.value, id))]))
             ELSE IF MapHas(cache.examplesData.value, id)
             THEN CollectUntilOneCap(scored, i + 1, cache, m, <<c[1], c[2], c[3] + 1>>,
                     Append(acc, [id |-> id, type |-> "example", score |-> sc,
                                  content |-> ExampleContent(MapGet(cache.examplesData.value, id))]))
             ELSE CollectUntilOneCap(scored, i + 1, cache, m, c, acc)

RECURSIVE Collect(_, _, _, _, _, _)
\* the loop of lines 163-199 from position i of the sorted list on; c is
\* <<docCount, refCount, exampleCount>> and m the three caps
Collect(scored, i, cache, m, c, acc) ==
    IF i > Len(scored) THEN acc
    ELSE IF c[1] >= m[1] /\ c[2] >= m[2] /\ c[3] >= m[3] THEN acc
    ELSE LET id == scored[i].id
             sc == scored[i].score
             doc == MapGet(cache.docsData.value, id)
             ref == MapGet(cache.refsData.value, id)
             example == MapGet(cache.examplesData.value, id)
         IN  IF MapHas(cache.docsData.value, id) /\ c[1] < m[1]
             THEN Collect(scored, i + 1, cache, m, <<c[1] + 1, c[2], c[3]>>,
                          Append(acc, [id |-> id, type |-> "documentation", score |-> sc,
                                       content |-> DocContent(doc)]))
             ELSE IF MapHas(cache.refsData.value, id) /\ c[2] < m[2]
             THEN Collect(scored, i + 1, cache, m, <<c[1], c[2] + 1, c[3]>>,
                          Append(acc, [id |-> id, type |-> "reference", score |-> sc,
                                       content |-> RefContent(ref)]))
             ELSE IF MapHas(cache.examplesData.value, id) /\ c[3] < m[3]
             THEN Collect(scored, i + 1, cache, m, <<c[1], c[2], c[3] + 1>>,
                          Append(acc, [id |-> id, type |-> "example", score |-> sc,
                                       content |-> ExampleContent(example)]))
             ELSE Collect(scored, i + 1, cache, m, c, acc)

\* lines 126-150: the scored list, sorted
Scored(q, index) ==
    SortByScore(ScoreAll(tokenize(q), extractFunctionMentions(q), index, 1, <<>>), 1, <<>>)

\* searchRAG after loadData(): lines 123-201 on the loaded cache
searchLoaded(q, opts, cache) ==
    IF cache.indexData.null \/ cache.docsData.null \/ cache.refsData.null
       \/ cache.examplesData.null
    THEN <<>>
    ELSE IF cache.indexData.value.totalDocs = 0 THEN <<>>
    ELSE Collect(Scored(q, cache.indexData.value), 1, cache,
                 << OrDefault(opts, "maxDocs", DefaultMaxDocs),
                    OrDefault(opts, "maxRefs", DefaultMaxRefs),
                    OrDefault(opts, "maxExamples", DefaultMaxExamples) >>,
                 <<0, 0, 0>>, <<>>)

(***************************************************************************)
(* The validator (src/lib/validator): rules/structure.ts                   *)
(***************************************************************************)
\* String.prototype.startsWith
StartsWith(str, prefix) ==
    Len(str) >= Len(prefix) /\ SubSeq(str, 1, Len(prefix)) = prefix

\* (str.match(/c/g) || []).length for a one-character pattern
CountChar(str, c) == Cardinality({ i \in 1..Len(str) : CharAt(str, i) = c })

\* /\bname\s*\(/
CallPattern(name) == Cat(<< WordB, Lit(name), Star(SpaceCh), Lit("(") >>)

\* /\/\/.*$/
InlineCommentPattern == Cat(<< Lit("//"), Star(AnyCh), EndOfInput >>)

\* line.replace(/\/\/.*$/, "")
WithoutComments(line) ==
    LET m == FirstMatch(InlineCommentPattern, line)
    IN  IF m = NoMatch THEN line
        ELSE SubSeq(line, 1, m.st - 1) \o SubSeq(line, m.p, Len(line))

\* /(?<!\\)"/g
UnescapedQuotePattern == Cat(<< NotBehind(Lit("\\")), Lit("\"") >>)

\* line.trim().startsWith("//")
IsCommentLine(line) == StartsWith(trim(line), "//")

\* lines.findIndex((l) => l.trim().length > 0), 1-based; 0 stands for -1
FirstNonEmpty(lines) ==
    IF \A i \in DOMAIN lines : trim(lines[i]) = "" THEN 0
    ELSE CHOOSE i \in DOMAIN lines :
            /\ trim(lines[i]) # ""
            /\ \A j \in 1..(i - 1) : trim(lines[j]) = ""

\* the loop of lines 74-90 from line i on
UnbalancedStrings(lines, i) ==
    PushedFrom([n \in DOMAIN lines |->
                  IF /\ ~IsCommentLine(lines[n])
                     /\ Len(MatchAll(UnescapedQuotePattern, WithoutComments(lines[n]))) % 2 # 0
                  THEN << [ rule |-> "unbalanced-string", status |-> "error",
                            message |-> "Unbalanced string quotes", line |-> n ] >>
                  ELSE <<>>], i)

\* the findings of lines 18-90, for a script with a non-empty line
StructureErrors(src) ==
    LET lines == Split(src, "\n")
        firstNonEmpty == FirstNonEmpty(lines)
        hasIndicator == Test(CallPattern("indicator"), src)
        hasStrategy == Test(CallPattern("strategy"), src)
        hasLibrary == Test(CallPattern("library"), src)
        openParens == CountChar(src, "(")
        closeParens == CountChar(src, ")")
        openBrackets == CountChar(src, "[")
        closeBrackets == CountChar(src, "]")
        found ==
            (IF ~StartsWith(trim(lines[firstNonEmpty]), "//@version=")
             THEN << [ rule |-> "missing-version", status |-> "error",
                       message |-> "//@version= annotation must be the first non-empty line",
                       line |-> firstNonEmpty,
                       suggestion |-> "Add //@version=6 as the first line" ] >>
             ELSE <<>>)
            \o (IF ~hasIndicator /\ ~hasStrategy /\ ~hasLibrary
                THEN << [ rule |-> "missing-declaration", status |-> "error",
                          message |-> "Script must have an indicator(), strategy(), or library() declaration",
                          suggestion |-> "Add indicator(\"My Script\") after the version annotation" ] >>
                ELSE <<>>)
            \o (IF hasIndicator /\ hasStrategy
                THEN << [ rule |-> "dual-declaration", status |-> "error",
                          message |-> "Script cannot be both indicator() and strategy()",
                          suggestion |-> "Remove one of the declarations" ] >>
                ELSE <<>>)
            \o (IF openParens # closeParens
                THEN << [ rule |-> "unbalanced-parens", status |-> "error",
                          message |-> "Unbalanced parentheses: " \o ToString(openParens)
                                      \o " opening, " \o ToString(closeParens) \o " closing" ] >>
                ELSE <<>>)
            \o (IF openBrackets # closeBrackets
                THEN << [ rule |-> "unbalanced-brackets", status |-> "error",
                          message |-> "Unbalanced brackets: " \o ToString(openBrackets)
                                      \o " opening, " \o ToString(closeBrackets) \o " closing" ] >>
                ELSE <<>>)
            \o UnbalancedStrings(lines, 1)
    IN  found

\* lines 9-16
EmptyScript == << [ rule |-> "empty-script", status |-> "error", message |-> "Script is empty" ] >>

\* lines 92-98
StructurePass ==
    << [ rule |-> "structure", status |-> "pass", message |-> "Script structure is valid" ] >>

\* checkStructure without the synthetic result of lines 92-98
checkStructureNoPass(src) ==
    IF FirstNonEmpty(Split(src, "\n")) = 0 THEN EmptyScript ELSE StructureErrors(src)

\* checkStructure returning at its first finding
checkStructureFirstOnly(src) ==
    IF FirstNonEmpty(Split(src, "\n")) = 0 THEN EmptyScript
    ELSE IF Len(StructureErrors(src)) = 0 THEN StructurePass
    ELSE << Head(StructureErrors(src)) >>

checkStructure(src) ==
    IF FirstNonEmpty(Split(src, "\n")) = 0 THEN EmptyScript
    ELSE IF Len(StructureErrors(src)) = 0 THEN StructurePass
    ELSE StructureErrors(src)

(***************************************************************************)
(* rules/deprecated.ts                                                     *)
(***************************************************************************)
\* (?<!\w\.)
NotAfterNamespace == NotBehind(Cat(<< WordCh, Lit(".") >>))

\* /\bname\s*\(/ in the place of the lookbehind
WordCallPattern(name) == Cat(<< WordB, Lit(name), Star(SpaceCh), Lit("(") >>)

\* /(?<!\w\.)name\s*\(/
BareCallPattern(name) == Cat(<< NotAfterNamespace, Lit(name), Star(SpaceCh), Lit("(") >>)

DEPRECATED_V6 ==
    << [ pattern |-> BareCallPattern("security"),
         rule |-> "deprecated-security",
         message |-> "security() is deprecated in v6",
         suggestion |-> "Use request.security() instead" ],
       [ pattern |-> CallPattern("study"),
         rule |-> "deprecated-study",
         message |-> "study() is deprecated in v6",
         suggestion |-> "Use indicator() instead" ],
       [ pattern |-> Cat(<< WordB, Lit("transp"), Star(SpaceCh), Lit("=") >>),
         rule |-> "deprecated-transp",
         message |-> "transp parameter is deprecated in v6",
         suggestion |-> "Use color.new(color, transparency) instead" ],
       [ pattern |-> CallPattern("iff"),
         rule |-> "deprecated-iff",
         message |-> "iff() is deprecated in v6",
         suggestion |-> "Use ternary operator: condition ? valueIfTrue : valueIfFalse" ],
       [ pattern |-> Lit("plot.style_dashed"),
         rule |-> "nonexistent-style-dashed",
         message |-> "plot.style_dashed does not exist in PineScript",
         suggestion |-> "Use plot.style_line with linewidth parameter for visual distinction" ],
       [ pattern |-> Cat(<< WordB, Lit("input."),
                            Alt(<< Lit("integer"), Lit("resolution"), Lit("symbol") >>),
                            Star(SpaceCh), Lit("(") >>),
         rule |-> "deprecated-input-type",
         message |-> "Deprecated input function",
         suggestion |-> "Use input.int(), input.timeframe(), input.symbol() instead" ],
       [ pattern |-> BareCallPattern("tostring"),
         rule |-> "deprecated-tostring",
         message |-> "tostring() is deprecated in v6",
         suggestion |-> "Use str.tostring() instead" ],
       [ pattern |-> BareCallPattern("tonumber"),
         rule |-> "deprecated-tonumber",
         message |-> "tonumber() is deprecated in v6",
         suggestion |-> "Use str.tonumber() instead" ] >>

ACTIVE_PATTERNS == DEPRECATED_V6

RECURSIVE DeprecatedInLine(_, _, _)
\* the loop of lines 80-90 over the patterns, for line number n
DeprecatedInLine(line, n, i) ==
    IF i > Len(ACTIVE_PATTERNS) THEN <<>>
    ELSE (IF Test(ACTIVE_PATTERNS[i].pattern, line)
          THEN << [ rule |-> ACTIVE_PATTERNS[i].rule, status |-> "error",
                    message |-> ACTIVE_PATTERNS[i].message, line |-> n,
                    suggestion |-> ACTIVE_PATTERNS[i].suggestion ] >>
          ELSE <<>>)
         \o DeprecatedInLine(line, n, i + 1)

\* the scan that reports the last line first
DeprecatedFromEnd(lines, i) ==
    PushedFrom([n \in 1..(Len(lines) + 1 - i) |->
                  IF IsCommentLine(lines[Len(lines) + 1 - n]) THEN <<>>
                  ELSE DeprecatedInLine(lines[Len(lines) + 1 - n], Len(lines) + 1 - n, 1)],
               1)

\* the loop of lines 75-91 from line i on
DeprecatedFrom(lines, i) ==
    PushedFrom([n \in DOMAIN lines |->
                  IF IsCommentLine(lines[n]) THEN <<>>
                  ELSE DeprecatedInLine(lines[n], n, 1)], i)

checkDeprecated(src, ver) ==
    IF ver # "v6" THEN <<>> ELSE DeprecatedFrom(Split(src, "\n"), 1)

(***************************************************************************)
(* rules/v6-specific.ts                                                    *)
(***************************************************************************)
\* /\btype\s+\w+\s*=\s*na\b/
NaAssignPattern(type) ==
    Cat(<< WordB, Lit(type), Plus(SpaceCh), Plus(WordCh), Star(SpaceCh), Lit("="),
           Star(SpaceCh), Lit("na"), WordB >>)

\* /type\s*\(\s*na\s*\)/
NaCastPattern(type) ==
    Cat(<< Lit(type), Star(SpaceCh), Lit("("), Star(SpaceCh), Lit("na"), Star(SpaceCh),
           Lit(")") >>)

\* the loop of lines 13-38 from line i on
NaCasts(lines, i) ==
    PushedFrom([n \in DOMAIN lines |->
                  IF IsCommentLine(lines[n]) THEN <<>>
                  ELSE (IF /\ Test(NaAssignPattern("bool"), lines[n])
                           /\ ~Test(NaCastPattern("bool"), lines[n])
                        THEN << [ rule |-> "bool-na-cast", status |-> "error",
                                  message |-> "Cannot assign na to bool without explicit cast in v6",
                                  line |-> n,
                                  suggestion |-> "Use bool(na) instead of plain na" ] >>
                        ELSE <<>>)
                       \o (IF /\ Test(NaAssignPattern("int"), lines[n])
                              /\ ~Test(NaCastPattern("int"), lines[n])
                           THEN << [ rule |-> "int-na-cast", status |-> "warn",
                                     message |-> "Assigning na to int may need explicit cast in v6",
                                     line |-> n,
                                     suggestion |-> "Use int(na) for clarity" ] >>
                           ELSE <<>>)], i)

\* /(\w+)\s*=\s*name\s*\(/
AssignedCallPattern(name) ==
    Cat(<< Cap(1, Plus(WordCh)), Star(SpaceCh), Lit("="), Star(SpaceCh), Lit(name),
           Star(SpaceCh), Lit("(") >>)

\* the set the loop of lines 44-52 collects for hline or plot
AssignedVars(lines, name) ==
    { Group1(lines[i], FirstMatch(AssignedCallPattern(name), lines[i])) :
        i \in { j \in DOMAIN lines :
                  /\ ~IsCommentLine(lines[j])
                  /\ Test(AssignedCallPattern(name), lines[j]) } }

\* /fill\s*\(\s*(\w+)\s*,\s*(\w+)/
FillPattern ==
    Cat(<< Lit("fill"), Star(SpaceCh), Lit("("), Star(SpaceCh), Cap(1, Plus(WordCh)),
           Star(SpaceCh), Lit(","), Star(SpaceCh), Cap(2, Plus(WordCh)) >>)

\* the finding of lines 66-75 for line n
MixedFillError(n) ==
    [ rule |-> "fill-mixed-types", status |-> "error",
      message |-> "fill() cannot mix hline and plot references",
      line |-> n,
      suggestion |-> "Both arguments to fill() must be the same type (both plot or both hline)" ]

\* the test of lines 61-65 accepting one argument order only
HlineThenPlot(line, fillMatch, hlineVars, plotVars) ==
    /\ ~IsCommentLine(line)
    /\ fillMatch # NoMatch
    /\ Group1(line, fillMatch) \in hlineVars
    /\ Group2(line, fillMatch) \in plotVars

\* the fill loop accepting one argument order only
MixedFillsHlineFirst(lines, i, hlineVars, plotVars) ==
    PushedFrom([n \in DOMAIN lines |->
                  IF HlineThenPlot(lines[n], FirstMatch(FillPattern, lines[n]),
                                   hlineVars, plotVars)
                  THEN << MixedFillError(n) >> ELSE <<>>], i)

\* the test of lines 61-65 on the arguments arg1 and arg2 of the fill call
MixesKinds(arg1, arg2, hlineVars, plotVars) ==
    \/ (arg1 \in hlineVars /\ arg2 \in plotVars)
    \/ (arg1 \in plotVars /\ arg2 \in hlineVars)

\* lines 56-65 on one line, fillMatch being the match of line 59
MixedFill(line, fillMatch, hlineVars, plotVars) ==
    /\ ~IsCommentLine(line)
    /\ fillMatch # NoMatch
    /\ MixesKinds(Group1(line, fillMatch), Group2(line, fillMatch), hlineVars, plotVars)

\* the loop of lines 55-77 from line i on
MixedFills(lines, i, hlineVars, plotVars) ==
    PushedFrom([n \in DOMAIN lines |->
                  IF MixedFill(lines[n], FirstMatch(FillPattern, lines[n]),
                               hlineVars, plotVars)
                  THEN << MixedFillError(n) >> ELSE <<>>], i)

\* /input\.(?:int|float)\s*\(/, /\bdef\s*=/ and /\bdefval\s*=/
InputNumberPattern ==
    Cat(<< Lit("input."), Alt(<< Lit("int"), Lit("float") >>), Star(SpaceCh), Lit("(") >>)
NamedArgPattern(name) == Cat(<< WordB, Lit(name), Star(SpaceCh), Lit("=") >>)

\* the loop of lines 80-93 from line i on
InputDefs(lines, i) ==
    PushedFrom([n \in DOMAIN lines |->
                  IF /\ ~IsCommentLine(lines[n])
                     /\ Test(InputNumberPattern, lines[n])
                     /\ Test(NamedArgPattern("def"), lines[n])
                     /\ ~Test(NamedArgPattern("defval"), lines[n])
                  THEN << [ rule |-> "input-def-param", status |-> "error",
                            message |-> "input.int()/input.float() uses defval, not def",
                            line |-> n,
                            suggestion |-> "Change def= to defval=" ] >>
                  ELSE <<>>], i)

checkV6Specific(src, ver) ==
    IF ver # "v6" THEN <<>>
    ELSE LET lines == Split(src, "\n")
         IN  NaCasts(lines, 1)
             \o MixedFills(lines, 1, AssignedVars(lines, "hline"), AssignedVars(lines, "plot"))
             \o InputDefs(lines, 1)

(***************************************************************************)
(* rules/limits.ts                                                         *)
(***************************************************************************)
PlotLimit == 64
PlotWarning == 50
RequestLimit == 40
RequestWarning == 30
ScriptSizeWarning == 50000

\* the pattern of line 103 (8 of rules/limits.ts)
PlotCallPattern ==
    Cat(<< WordB,
           Alt(<< Lit("plot"), Lit("plotshape"), Lit("plotchar"), Lit("plotarrow"),
                  Lit("plotcandle"), Lit("plotbar"), Lit("hline"), Lit("fill"),
                  Lit("bgcolor"), Lit("barcolor") >>),
           Star(SpaceCh), Lit("(") >>)

\* /\brequest\.\w+\s*\(/g
RequestCallPattern ==
    Cat(<< WordB, Lit("request."), Plus(WordCh), Star(SpaceCh), Lit("(") >>)

\* the results pushed at lines 107-111 and 114-118
PlotLimitExceeded(plotCalls) ==
    << [ rule |-> "plot-limit-exceeded", status |-> "error",
         message |-> ToString(plotCalls) \o " plot calls exceed TradingView limit of 64",
         suggestion |-> "Reduce the number of plot/hline/fill/bgcolor calls" ] >>

PlotLimitWarning(plotCalls) ==
    << [ rule |-> "plot-limit-warning", status |-> "warn",
         message |-> ToString(plotCalls) \o " plot calls approaching TradingView limit of 64",
         suggestion |-> "Consider reducing plot calls to stay safely under the limit" ] >>

\* lines 123-149: the request and size checks (the dash of the size message
\* is written in ASCII)
RequestAndSize(src) ==
    LET requestCalls == Len(MatchAll(RequestCallPattern, src))
    IN  (IF requestCalls > RequestLimit
            THEN << [ rule |-> "request-limit-exceeded", status |-> "error",
                      message |-> ToString(requestCalls) \o " request calls exceed TradingView limit of 40",
                      suggestion |-> "Reduce the number of request.security() and other request.* calls" ] >>
            ELSE IF requestCalls > RequestWarning
            THEN << [ rule |-> "request-limit-warning", status |-> "warn",
                      message |-> ToString(requestCalls) \o " request calls approaching TradingView limit of 40",
                      suggestion |-> "Consider reducing request.* calls to stay safely under the limit" ] >>
            ELSE <<>>)
        \o (IF Len(src) > ScriptSizeWarning
            THEN << [ rule |-> "script-size-warning", status |-> "warn",
                      message |-> "Script is " \o ToString((Len(src) + 500) \div 1000)
                                  \o "K characters -- may approach TradingView compilation limits",
                      suggestion |-> "Consider splitting into a library + indicator pattern" ] >>
            ELSE <<>>)

\* checkLimits with the limit itself counted as exceeded
checkLimitsInclusive(src) ==
    LET plotCalls == Len(MatchAll(PlotCallPattern, src))
    IN  (IF plotCalls >= PlotLimit THEN PlotLimitExceeded(plotCalls)
         ELSE IF plotCalls > PlotWarning THEN PlotLimitWarning(plotCalls)
         ELSE <<>>)
        \o RequestAndSize(src)

\* checkLimits with two separate tests in the place of else if
checkLimitsBoth(src) ==
    LET plotCalls == Len(MatchAll(PlotCallPattern, src))
    IN  (IF plotCalls > PlotLimit THEN PlotLimitExceeded(plotCalls) ELSE <<>>)
        \o (IF plotCalls > PlotWarning THEN PlotLimitWarning(plotCalls) ELSE <<>>)
        \o RequestAndSize(src)

checkLimits(src) ==
    LET plotCalls == Len(MatchAll(PlotCallPattern, src))
    IN  (IF plotCalls > PlotLimit THEN PlotLimitExceeded(plotCalls)
         ELSE IF plotCalls > PlotWarning THEN PlotLimitWarning(plotCalls)
         ELSE <<>>)
        \o RequestAndSize(src)

(***************************************************************************)
(* validatePineScript (src/lib/validator/index.ts)                         *)
(***************************************************************************)
\* the version argument left out
Omitted == "undefined"

\* the orchestrator without the guard of line 18
validateUnguarded(src, ver) ==
    LET v == IF ver = Omitted THEN "v6" ELSE ver
    IN  checkStructure(src) \o checkDeprecated(src, v) \o checkV6Specific(src, v)
        \o checkLimits(src)

\* the orchestrator with the limits module spread first
validateLimitsFirst(src, ver) ==
    LET v == IF ver = Omitted THEN "v6" ELSE ver
    IN  IF trim(src) = "" THEN <<>>
        ELSE checkLimits(src) \o checkStructure(src) \o checkDeprecated(src, v)
             \o checkV6Specific(src, v)

validatePineScript(src, ver) ==
    LET v == IF ver = Omitted THEN "v6" ELSE ver
    IN  IF trim(src) = "" THEN <<>>
        ELSE checkStructure(src) \o checkDeprecated(src, v) \o checkV6Specific(src, v)
             \o checkLimits(src)

(***************************************************************************)
(* POST /api/chat (app/api/chat/route.ts): no request is being served      *)
(***************************************************************************)
NoRequest == [ provider |-> "", pineVersion |-> "", transpilerEnabled |-> FALSE ]

NoReview == [ verdict |-> "", issues |-> <<>> ]

\* a string | null value: null
NoCode == [ null |-> TRUE, value |-> "" ]

ChatIdle ==
    /\ request = NoRequest
    /\ stream = <<>>
    /\ llmCalls = <<>>
    /\ fullContent = ""
    /\ generatedCode = NoCode
    /\ allStaticResults = <<>>
    /\ reviewResult = NoReview
    /\ events = <<>>
    /\ pcChat = "closed"

(***************************************************************************)
(* Specification SpecRAG: process-docs writes the artifacts, the server    *)
(* process loads them once and answers searchRAG calls.                    *)
(***************************************************************************)
MaxGuides == 4
MaxFunctions == 6
MaxScripts == 3

\* guide pages of RAW_DOCS/concepts, one header each
GuideTexts ==
    << "## Moving averages\nThe ta.sma function returns the simple moving average of a source over a number of bars.",
       "## Plotting\nUse plot to draw a series on the chart and hline to mark a level such as a moving average.",
       "## Strategies\nA strategy places orders with strategy.entry and exits them with strategy.close on the next bar.",
       "## Objects\nEach user defined type has a constructor named new that returns an object holding a moving window." >>

\* sections of RAW_DOCS/reference/functions/ta.md
FunctionSections ==
    << "## sma\n\nReturns the simple moving average of source over length bars.\n\n### Returns\nseries float\n\n",
       "## ema\n\nReturns the exponential moving average of source.\n\n### Returns\nseries float\n\n",
       "## wma()\n\nReturns the weighted moving average of source.\n\n",
       "## rma\n\nReturns the moving average used in rsi.\n\n### Returns\nseries float\n\n",
       "## ta.vwma\n\nReturns the volume weighted moving average.\n\n",
       "## hma\n\nReturns the hull moving average of source.\n\n" >>

\* files of RAW_SCRIPTS
ScriptFiles ==
    << [ path |-> <<"indicators", "sma-cross.pine">>,
         code |-> "//@version=6\nindicator(\"SMA Cross\", overlay=true)\nfast = ta.sma(close, 10)\nplot(fast)" ],
       [ path |-> <<"strategies", "trend", "ma-strategy.pine">>,
         code |-> "//@version=5\nstrategy('Moving Average Strategy')\navg = ta.ema(close, 20)\nif close > avg\n    strategy.entry(\"long\", strategy.long)" ],
       [ path |-> <<"average.pine">>,
         code |-> "// moving average helper\nf(x) => math.avg(x, x[1])" ] >>

\* the i-th element of a library, read cyclically
Nth(library, i) == library[((i - 1) % Len(library)) + 1]

\* the raw files of a corpus of g guide pages, f sections in ta.md and s
\* scripts; ta.md is a file of RAW_DOCS too
RawCorpus(g, f, s) ==
    LET sections == <<>> \o [i \in 1..f |-> Nth(FunctionSections, i)]
    IN  [ docs |-> [i \in 1..g |->
                      [dir |-> "concepts", name |-> "guide" \o ToString(i),
                       text |-> Nth(GuideTexts, i)]]
                   \o (IF f = 0 THEN <<>>
                       ELSE << [dir |-> "reference/functions", name |-> "ta",
                                text |-> Join(sections, "")] >>),
          funcDir |-> f > 0,
          functions |-> IF f = 0 THEN <<>> ELSE << [name |-> "ta", sections |-> sections] >>,
          flat |-> <<>>,
          scripts |-> <<>> \o [i \in 1..s |-> Nth(ScriptFiles, i)] ]

\* data/raw without any file
NoRaw == RawCorpus(0, 0, 0)

\* the corpora: empty, one file of each kind, one kind only, and more
\* matching documents of every kind than the default caps
CorpusShapes ==
    { sh \in { <<0, 0, 0>>, <<1, 1, 1>>, <<MaxGuides, 0, 0>>,
               <<0, MaxFunctions, MaxScripts>>, <<MaxGuides, MaxFunctions, MaxScripts>> } :
        \A i \in DOMAIN RawCorpus(sh[1], sh[2], sh[3]).docs :
            estimateTokens(RawCorpus(sh[1], sh[2], sh[3]).docs[i].text) <= ChunkTokenLimit }

\* what main() writes for each corpus
Artifacts == { <<sh, main(RawCorpus(sh[1], sh[2], sh[3]))>> : sh \in CorpusShapes }

Built(sh) == (CHOOSE e \in Artifacts : e[1] = sh)[2]

NoFiles == [docs |-> Missing, refs |-> Missing, examples |-> Missing, index |-> Missing]

\* the queries of search.test.ts and of the chat route
Queries ==
    { "", "   ", "ta.sma moving average", "moving average calculation",
      "moving average", "ta.sma", "How do I use ta.sma.", "How do I use",
      "plot a moving average with ta.sma", "strategy.entry on a moving average",
      "what is a constructor" }

\* no property given
NoOptions == [key \in {} |-> 0]

OptionValues ==
    { NoOptions,
      [maxDocs |-> 1, maxRefs |-> 2, maxExamples |-> 1],
      [maxDocs |-> 10, maxRefs |-> 10, maxExamples |-> 10],
      [maxDocs |-> 1],
      [maxDocs |-> 0, maxRefs |-> 0, maxExamples |-> 0] }

Cache == [docsData |-> docsData, refsData |-> refsData,
          examplesData |-> examplesData, indexData |-> indexData, threw |-> FALSE]

InitRAG ==
    /\ ChatIdle
    /\ raw = NoRaw
    /\ disk = NoFiles
    /\ docsData = JsNull
    /\ refsData = JsNull
    /\ examplesData = JsNull
    /\ indexData = JsNull
    /\ query = ""
    /\ options = NoOptions
    /\ results = <<>>
    /\ pcRAG = "idle"
    /\ code = ""
    /\ version = Omitted
    /\ findings = <<>>
    /\ pcValidate = "done"
    /\ queryTerms = <<>>
    /\ docTerms = <<>>
    /\ idf = <<>>
    /\ avgDl = NaN
    /\ k1 = DefaultK1
    /\ b = DefaultB
    /\ score = NaN
    /\ pcBM25 = "done"

\* npm run process-docs: main() of scripts/process-docs.ts replaces the
\* four files
RunProcessDocs ==
    /\ \E sh \in CorpusShapes :
          /\ raw' = RawCorpus(sh[1], sh[2], sh[3])
          /\ disk' = Built(sh)
    /\ disk' # disk
    /\ UNCHANGED <<docsData, refsData, examplesData, indexData, query, options,
                   results, pcRAG, bm25Vars, validateVars, chatVars>>

\* searchRAG(query, options) for a query of qs: loadData() and lines 120-201
SearchRAGOf(qs) ==
    /\ pcRAG = "idle"
    /\ \E q \in qs, opts \in OptionValues :
         LET loaded == loadData(disk, Cache)
         IN  /\ docsData' = loaded.docsData
             /\ refsData' = loaded.refsData
             /\ examplesData' = loaded.examplesData
             /\ indexData' = loaded.indexData
             /\ query' = q
             /\ options' = opts
             /\ results' = IF loaded.threw THEN <<>> ELSE searchLoaded(q, opts, loaded)
             /\ pcRAG' = IF loaded.threw THEN "threw" ELSE "returned"
    /\ UNCHANGED <<raw, disk, bm25Vars, validateVars, chatVars>>

SearchRAG == SearchRAGOf(Queries)

\* the caller takes the results
Return ==
    /\ pcRAG \in { "returned", "threw" }
    /\ pcRAG' = "idle"
    /\ query' = ""
    /\ options' = NoOptions
    /\ results' = <<>>
    /\ UNCHANGED <<raw, disk, docsData, refsData, examplesData, indexData, bm25Vars,
                   validateVars, chatVars>>

\* the server process starts again: the module-level cache of lines 60-64
\* is null again
Restart ==
    /\ pcRAG = "idle"
    /\ ~docsData.null
    /\ docsData' = JsNull
    /\ refsData' = JsNull
    /\ examplesData' = JsNull
    /\ indexData' = JsNull
    /\ UNCHANGED <<raw, disk, query, options, results, pcRAG, bm25Vars, validateVars, chatVars>>

NextRAG == RunProcessDocs \/ SearchRAG \/ Return \/ Restart

SpecRAG == InitRAG /\ [][NextRAG]_vars

(***************************************************************************)
(* Specification SpecLoad: the server process starts on a data directory   *)
(* in which each of the four files is the one some run of process-docs     *)
(* wrote, or is missing, or does not parse.                                *)
(***************************************************************************)
\* the runs of process-docs whose files the directory may hold
LoadShapes == CorpusShapes \cap { <<1, 1, 1>>, <<MaxGuides, MaxFunctions, MaxScripts>> }

\* the states of one file: written by one of the runs, missing or unparsable
FileStates(builds, kind) == { d[kind] : d \in builds } \cup { Missing, Unparsable }

\* the directories whose files are those of the runs, each on its own
DisksOf(builds) ==
    [ docs : FileStates(builds, "docs"), refs : FileStates(builds, "refs"),
      examples : FileStates(builds, "examples"), index : FileStates(builds, "index") ]

LoadDisks == DisksOf({ Built(sh) : sh \in LoadShapes })

InitLoad ==
    /\ ChatIdle
    /\ raw = NoRaw
    /\ disk \in LoadDisks
    /\ docsData = JsNull
    /\ refsData = JsNull
    /\ examplesData = JsNull
    /\ indexData = JsNull
    /\ query = ""
    /\ options = NoOptions
    /\ results = <<>>
    /\ pcRAG = "idle"
    /\ code = ""
    /\ version = Omitted
    /\ findings = <<>>
    /\ pcValidate = "done"
    /\ queryTerms = <<>>
    /\ docTerms = <<>>
    /\ idf = <<>>
    /\ avgDl = NaN
    /\ k1 = DefaultK1
    /\ b = DefaultB
    /\ score = NaN
    /\ pcBM25 = "done"

NextLoad == SearchRAG \/ Return

SpecLoad == InitLoad /\ [][NextLoad]_vars

(***************************************************************************)
(* Specification SpecBuild: one run of process-docs on a tree of raw files: *)
(* a guide page made of header-delimited sections, small and large, or a   *)
(* reference directory with or without its function files and flat files.  *)
(***************************************************************************)
\* a line of 80 characters, its line feed included
FillerLine == "The close series holds the closing price of each bar that the chart can display\n"

\* n filler lines
Filler(n) == Join([i \in 1..n |-> FillerLine], "")

\* the sections a guide page is made of: text before any header, two
\* short sections, a section of half the chunk limit, one above the limit
\* and one above the limit that opens with a short code block
IntroPart == "Pine Script notes.\n" \o Filler(1)
SectionParts ==
    { IntroPart,
      "## Alpha\n" \o Filler(2),
      "### Beta\n" \o Filler(2),
      "## Half\n" \o Filler(21),
      "## Big\n" \o Filler(41),
      "## Code\n" \o CodeFence \o "pine\nplot(close)\n" \o CodeFence \o "\n" \o Filler(41) }

\* guide pages of one section, of two, and of two after the text without
\* header
GuidePages ==
    SectionParts \cup { x \o y : x, y \in SectionParts }
    \cup { IntroPart \o x \o y : x, y \in SectionParts \ { IntroPart } }

\* RAW_DOCS/reference: functions/ta.md and the three flat files
TaFile == [ name |-> "ta", sections |-> SubSeq(FunctionSections, 1, 2) ]
FlatLibrary ==
    << [ name |-> "variables",
         sections |-> << "## bar_index\n\nCurrent bar index.\n\n",
                         "## close\n\nClose price of the bar.\n\n" >> ],
       [ name |-> "constants", sections |-> << "## color.red\n\nThe red color.\n\n" >> ],
       [ name |-> "types", sections |-> << "## line()\n\nA line object.\n\n" >> ] >>

\* the flat files of a tree that holds those of keep, in the order of the
\* list of lines 229-233
RECURSIVE FlatOf(_, _)
FlatOf(keep, i) ==
    IF i > Len(FlatLibrary) THEN <<>>
    ELSE (IF FlatLibrary[i].name \in keep THEN << FlatLibrary[i] >> ELSE <<>>)
         \o FlatOf(keep, i + 1)

\* a file of RAW_DOCS/reference as readDir(RAW_DOCS) finds it
AsDoc(dir, file) == [ dir |-> dir, name |-> file.name, text |-> Join(file.sections, "") ]

\* a tree with one guide page
GuideTree(text) ==
    [ docs |-> << [ dir |-> "concepts", name |-> "guide", text |-> text ] >>,
      funcDir |-> FALSE, functions |-> <<>>, flat |-> <<>>, scripts |-> <<>> ]

\* a tree with a reference directory
ReferenceTree(funcDir, functions, keep) ==
    [ docs |-> [ i \in DOMAIN functions |-> AsDoc("reference/functions", functions[i]) ]
               \o [ i \in DOMAIN FlatOf(keep, 1) |-> AsDoc("reference", FlatOf(keep, 1)[i]) ],
      funcDir |-> funcDir, functions |-> functions, flat |-> FlatOf(keep, 1),
      scripts |-> SubSeq(ScriptFiles, 1, 1) ]

BuildTrees ==
    { GuideTree(text) : text \in GuidePages }
    \cup { ReferenceTree(TRUE, fs, keep) :
              fs \in { <<>>, << TaFile >> },
              keep \in SUBSET { "variables", "constants", "types" } }
    \cup { ReferenceTree(FALSE, <<>>, keep) : keep \in SUBSET { "variables", "constants", "types" } }

InitBuild ==
    /\ ChatIdle
    /\ raw \in BuildTrees
    /\ disk = NoFiles
    /\ docsData = JsNull
    /\ refsData = JsNull
    /\ examplesData = JsNull
    /\ indexData = JsNull
    /\ query = ""
    /\ options = NoOptions
    /\ results = <<>>
    /\ pcRAG = "idle"
    /\ code = ""
    /\ version = Omitted
    /\ findings = <<>>
    /\ pcValidate = "done"
    /\ queryTerms = <<>>
    /\ docTerms = <<>>
    /\ idf = <<>>
    /\ avgDl = NaN
    /\ k1 = DefaultK1
    /\ b = DefaultB
    /\ score = NaN
    /\ pcBM25 = "done"

\* npm run process-docs on the raw files: main() writes the four files
Main ==
    /\ disk = NoFiles
    /\ disk' = main(raw)
    /\ UNCHANGED <<raw, docsData, refsData, examplesData, indexData, query, options,
                   results, pcRAG, bm25Vars, validateVars, chatVars>>

NextBuild == Main

SpecBuild == InitBuild /\ [][NextBuild]_vars

(***************************************************************************)
(* Specification SpecMentions: an example script that calls a function of  *)
(* a namespace is indexed, and the server is asked about such a function.  *)
(***************************************************************************)
\* the namespaces of the pattern of keyword extraction (process-docs.ts
\* line 78), in its order
KeywordNamespaces ==
    << "ta", "math", "str", "array", "matrix", "map", "request", "ticker", "timeframe",
       "chart", "runtime", "log", "strategy", "input", "color", "plot", "hline", "fill",
       "indicator", "label", "line", "box", "table" >>

\* a tree whose only file is a script calling ns.new
MentionTree(ns) ==
    [ docs |-> <<>>, funcDir |-> FALSE, functions |-> <<>>, flat |-> <<>>,
      scripts |-> << [ path |-> << "calls.pine" >>,
                       code |-> "//@version=6\nx = " \o ns \o ".new(1)" ] >> ]

MentionTrees == { MentionTree(KeywordNamespaces[i]) : i \in DOMAIN KeywordNamespaces }

MentionQueries == { "how to use " \o KeywordNamespaces[i] \o ".new" : i \in DOMAIN KeywordNamespaces }

InitMentions ==
    /\ ChatIdle
    /\ raw \in MentionTrees
    /\ disk = NoFiles
    /\ docsData = JsNull
    /\ refsData = JsNull
    /\ examplesData = JsNull
    /\ indexData = JsNull
    /\ query = ""
    /\ options = NoOptions
    /\ results = <<>>
    /\ pcRAG = "idle"
    /\ code = ""
    /\ version = Omitted
    /\ findings = <<>>
    /\ pcValidate = "done"
    /\ queryTerms = <<>>
    /\ docTerms = <<>>
    /\ idf = <<>>
    /\ avgDl = NaN
    /\ k1 = DefaultK1
    /\ b = DefaultB
    /\ score = NaN
    /\ pcBM25 = "done"

\* searchRAG for a question that names a function
SearchMention == SearchRAGOf(MentionQueries)

NextMentions == Main \/ SearchMention \/ Return

SpecMentions == InitMentions /\ [][NextMentions]_vars

(***************************************************************************)
(* Specification SpecValidate: one call of validatePineScript on a script  *)
(* of at most MaxLines lines of the library, or on the long script.        *)
(***************************************************************************)
MaxLines == 2

LineLibrary ==
    { "//@version=6", "indicator(\"X\")", "study(\"X\")", "bool b = na", "  ",
      "plot(close", "// study(\"old\")", "n = input.int(def=1)", "// was indicator(\"X\"" }

\* a script with one plot call more than the warning threshold
ManyPlots ==
    "//@version=6\nstudy(\"X\")\nint n = na\n"
    \o Join([i \in 1..(PlotWarning + 1) |-> "plot(close)"], "\n")

\* one-line scripts calling a function that v6 moved into a namespace, bare
\* and namespaced (deprecated.test.ts:23-32)
MovedCalls ==
    { prefix \o name \o gap \o "(x)" :
        prefix \in { "", "y = ", "request.", "str.", "// ", "y = str.tostring(x) + " },
        name \in { "security", "tostring", "tonumber" },
        gap \in { "", " " } }

\* the members of the plot family, in the order of the pattern of line 103
PlotFamily ==
    << "plot", "plotshape", "plotchar", "plotarrow", "plotcandle", "plotbar", "hline",
       "fill", "bgcolor", "barcolor" >>

\* a script of n calls of the plot family, two to a line
PlotCalls(n) ==
    Join([i \in 1..n |-> Nth(PlotFamily, i) \o "(x)" \o (IF i % 2 = 0 THEN "\n" ELSE " ")], "")

\* numbers of calls on both sides of the two thresholds
PlotCounts == { PlotWarning - 1, PlotWarning, PlotWarning + 1, PlotLimit - 1, PlotLimit,
                PlotLimit + 1, PlotLimit + 2 }

\* scripts declaring any of the three kinds, after a version line
\* (structure.test.ts: missing and dual declarations)
DeclaredScripts ==
    { "//@version=6" \o (IF i THEN "\nindicator(\"X\")" ELSE "")
                     \o (IF s THEN "\nstrategy(\"S\")" ELSE "")
                     \o (IF l THEN "\nlibrary(\"L\")" ELSE "") : i, s, l \in BOOLEAN }

\* lines holding string literals: closed, left open, holding //, an escaped
\* quote, an escaped backslash, a quote inside a single-quoted literal, and
\* a quote inside a trailing comment (structure.test.ts: unbalanced quotes)
StringLines ==
    { "s = \"a\"", "s = \"a", "s = \"http://x\"", "s = \"a\\\"b\"", "s = \"a\\\\\"",
      "s = 'a\"b'", "s = \"a\" // \"note", "  // s = \"a" }

\* the lines above as the first and as the second line of a script
StringScripts == { prefix \o line : prefix \in { "", "//@version=6\n" }, line \in StringLines }

\* the variables of the fill tests (v6-specific.test.ts), each with the
\* line that assigns it
FillVars == { "h1", "h2", "p1", "p2" }
FillAssign(v) == v \o " = " \o (IF CharAt(v, 1) = "h" THEN "hline(70)" ELSE "plot(close)")

\* scripts of two assignments and a fill call of the two variables, the
\* call after or before the assignments; a fill of an unassigned name and a
\* fill in a comment line
FillScripts ==
    { FillAssign(x) \o "\n" \o FillAssign(y) \o "\nfill(" \o x \o ", " \o y \o ", color=color.red)" :
        x, y \in FillVars }
    \cup { "fill(" \o x \o "," \o y \o ")\n" \o FillAssign(x) \o "\n" \o FillAssign(y) :
              x, y \in FillVars }
    \cup { "h1 = hline(70)\nfill(h1, x1)", "h1 = hline(70)\np1 = plot(close)\n// fill(h1, p1)" }

\* a script at the warning threshold followed by a commented-out call
CommentedPlot == PlotCalls(PlotWarning) \o "// plot(x)"

Codes ==
    { Join(ls, "\n") : ls \in SeqsUpTo(LineLibrary, MaxLines) } \cup { ManyPlots }
    \cup MovedCalls \cup { PlotCalls(n) : n \in PlotCounts } \cup { CommentedPlot }
    \cup DeclaredScripts \cup StringScripts \cup FillScripts

Versions == { Omitted, "v5", "v6" }

InitValidate ==
    /\ ChatIdle
    /\ code \in Codes
    /\ version \in Versions
    /\ findings = <<>>
    /\ pcValidate = "call"
    /\ raw = NoRaw
    /\ disk = NoFiles
    /\ docsData = JsNull
    /\ refsData = JsNull
    /\ examplesData = JsNull
    /\ indexData = JsNull
    /\ query = ""
    /\ options = NoOptions
    /\ results = <<>>
    /\ pcRAG = "idle"
    /\ queryTerms = <<>>
    /\ docTerms = <<>>
    /\ idf = <<>>
    /\ avgDl = NaN
    /\ k1 = DefaultK1
    /\ b = DefaultB
    /\ score = NaN
    /\ pcBM25 = "done"

\* the caller evaluates validatePineScript(code, version)
Validate ==
    /\ pcValidate = "call"
    /\ findings' = validatePineScript(code, version)
    /\ pcValidate' = "done"
    /\ UNCHANGED <<code, version, bm25Vars, ragVars, chatVars>>

NextValidate == Validate

SpecValidate == InitValidate /\ [][NextValidate]_vars

(***************************************************************************)
(* Specification SpecModules: one call of one rule module, as the tests of *)
(* the modules make them.                                                  *)
(***************************************************************************)
\* checkStructure(code)
CheckStructure ==
    /\ pcValidate = "call"
    /\ findings' = checkStructure(code)
    /\ pcValidate' = "structure"
    /\ UNCHANGED <<code, version, bm25Vars, ragVars, chatVars>>

\* checkDeprecated(code, version)
CheckDeprecated ==
    /\ pcValidate = "call"
    /\ version # Omitted
    /\ findings' = checkDeprecated(code, version)
    /\ pcValidate' = "deprecated"
    /\ UNCHANGED <<code, version, bm25Vars, ragVars, chatVars>>

\* checkV6Specific(code, version)
CheckV6Specific ==
    /\ pcValidate = "call"
    /\ version # Omitted
    /\ findings' = checkV6Specific(code, version)
    /\ pcValidate' = "v6-specific"
    /\ UNCHANGED <<code, version, bm25Vars, ragVars, chatVars>>

\* checkLimits(code)
CheckLimits ==
    /\ pcValidate = "call"
    /\ findings' = checkLimits(code)
    /\ pcValidate' = "limits"
    /\ UNCHANGED <<code, version, bm25Vars, ragVars, chatVars>>

NextModules == CheckStructure \/ CheckDeprecated \/ CheckV6Specific \/ CheckLimits

SpecModules == InitValidate /\ [][NextModules]_vars

(***************************************************************************)
(* Specification SpecBM25: one call of scoreBM25 on arguments drawn from   *)
(* bounded sets.  k1 > 0, 0 <= b <= 1 and avgDl > 0 (the parameters'       *)
(* domain); an idf table may lack a term or hold 0 for it.                 *)
(***************************************************************************)
MaxDocTerms == 3
MaxQueryTerms == 2

BM25Terms == { "sma", "pine", "constructor" }

\* idf tables as the tests write them (bm25.test.ts:5-13), one lacking a
\* term, one holding 0, one with an own key "constructor"
IdfTables ==
    { [t \in { "sma", "pine" } |-> IF t = "sma" THEN Num(3) ELSE Rat(3, 2)],
      [t \in { "sma" } |-> Num(3)],
      [t \in { "sma", "pine", "constructor" } |->
          IF t = "sma" THEN Num(0) ELSE IF t = "pine" THEN Num(1) ELSE Num(2)] }

AvgDls == { Num(2), Num(5) }

\* <<k1, b>>: the defaults, then the pairs of bm25.test.ts:98-105
KBs == { <<DefaultK1, DefaultB>>, <<Num(2), Rat(1, 2)>>, <<DefaultK1, Num(0)>>,
         <<DefaultK1, Num(1)>> }

DocTermLists == SeqsUpTo(BM25Terms, MaxDocTerms)
QueryTermLists == SeqsUpTo(BM25Terms, MaxQueryTerms)

InitBM25 ==
    /\ ChatIdle
    /\ queryTerms \in QueryTermLists
    /\ docTerms \in DocTermLists
    /\ idf \in IdfTables
    /\ avgDl \in AvgDls
    /\ \E kb \in KBs : k1 = kb[1] /\ b = kb[2]
    /\ score = NaN
    /\ pcBM25 = "call"
    /\ raw = NoRaw
    /\ disk = NoFiles
    /\ docsData = JsNull
    /\ refsData = JsNull
    /\ examplesData = JsNull
    /\ indexData = JsNull
    /\ query = ""
    /\ options = NoOptions
    /\ results = <<>>
    /\ pcRAG = "idle"
    /\ code = ""
    /\ version = Omitted
    /\ findings = <<>>
    /\ pcValidate = "done"

\* the caller evaluates scoreBM25(queryTerms, docTerms, idf, avgDl, k1, b)
CallScoreBM25 ==
    /\ pcBM25 = "call"
    /\ score' = scoreBM25(queryTerms, docTerms, idf, avgDl, k1, b)
    /\ pcBM25' = "done"
    /\ UNCHANGED <<queryTerms, docTerms, idf, avgDl, k1, b>>
    /\ UNCHANGED <<ragVars, validateVars, chatVars>>

NextBM25 == CallScoreBM25

SpecBM25 == InitBM25 /\ [][NextBM25]_vars

(***************************************************************************)
(* Specification SpecChat: one POST /api/chat request whose generation is  *)
(* streamed and then validated (route.ts lines 257-397).                   *)
(***************************************************************************)
CodeOf(str) == [ null |-> FALSE, value |-> str ]

\* if (generatedCode), if (fixedCode): neither null nor the empty string
HasCode(c) == ~c.null /\ c.value # ""

\* /~~~(?:pinescript|pine)\s*\n([\s\S]*?)~~~/ with the fence of three
\* backquotes written ~~~
PineBlockPattern ==
    Cat(<< Lit(CodeFence), Alt(<< Lit("pinescript"), Lit("pine") >>), Star(SpaceCh),
           Lit("\n"), Cap(1, Star(AnyOrNewline)), Lit(CodeFence) >>)

\* route.ts lines 112-115. The lazy group makes the match end at the first
\* closing fence; the ways \s*\n can divide the white space before the code
\* differ in the white space that starts the group, which trim removes.
extractCodeFromContent(content) ==
    LET m == FirstMatchLazy(PineBlockPattern, content)
    IN  IF m = NoMatch THEN NoCode ELSE CodeOf(trim(Group1(content, m)))

\* reviewer.ts lines 113-116
extractCodeFromResponse(text) ==
    LET m == FirstMatchLazy(PineBlockPattern, text)
    IN  IF m = NoMatch THEN NoCode ELSE CodeOf(trim(Group1(text, m)))

\* generated scripts: one the static rules pass, one without a version line
GoodCode == "//@version=6\nindicator(\"X\")\nplot(close)"

BadCode == "indicator(\"X\")\nplot(close)"

\* the text deltas a provider stream yields for one generation
Replies ==
    { << "Here is the script:\n", CodeFence \o "pinescript\n" \o GoodCode, "\n" \o CodeFence,
         "\nIt plots the close." >>,
      << "Try this:\n" \o CodeFence \o "pine\n", BadCode \o "\n", CodeFence >>,
      << "Here you go:\n" \o CodeFence \o "pine\n", CodeFence \o "\n" >>,
      << CodeFence \o "pine\n  \n", "", CodeFence >>,
      << "Pine Script runs once on every bar.", "" >>,
      << CodeFence \o "js\nlet x = 1\n" \o CodeFence >>,
      << CodeFence \o "pine\n" \o GoodCode >>,
      << >> }

Requests ==
    [ provider : { "anthropic", "openai" }, pineVersion : { "v5", "v6" },
      transpilerEnabled : BOOLEAN ]

\* what transpileValidate returns (lib/transpiler lines 3-26): nothing when
\* the package is missing or throws, else one pass or one error result
TranspilerResults ==
    { << >>,
      << [ rule |-> "transpiler", status |-> "pass", message |-> "Code parses successfully" ] >>,
      << [ rule |-> "transpiler", status |-> "error",
           message |-> "Code contains syntax errors that prevent transpilation" ] >> }

\* issues of a review
SeriesIssue ==
    [ severity |-> "error", line |-> 3, description |-> "plot is given a string",
      fix |-> "pass a series" ]

StyleIssue ==
    [ severity |-> "warning", line |-> 2, description |-> "indicator has no overlay",
      fix |-> "add overlay=true" ]

\* what the parsed reply of the reviewer can be (reviewer.ts lines 81-111)
ReviewResults ==
    { [ verdict |-> "pass", issues |-> << >> ],
      [ verdict |-> "pass", issues |-> << StyleIssue >> ],
      [ verdict |-> "needs_fix", issues |-> << >> ],
      [ verdict |-> "needs_fix", issues |-> << SeriesIssue, StyleIssue >> ] }

\* reviewer.ts lines 135-138: what reviewCode returns when the call fails
FailOpen == [ verdict |-> "pass", issues |-> << >> ]

\* replies of the model to the fix prompt
FixResponses ==
    { CodeFence \o "pinescript\n" \o "//@version=6\nindicator(\"X\", overlay=true)\nplot(close)\n"
         \o CodeFence,
      "I cannot fix this script.",
      CodeFence \o "pine\n" \o CodeFence }

hasStaticErrorsNone(allResults) == FALSE

\* route.ts line 315
hasStaticErrors(allResults) == \E i \in DOMAIN allResults : allResults[i].status = "error"

\* route.ts lines 345-351: a review issue as a result of a corrected script
CorrectedIssue(issue) ==
    [ rule |-> "ai-review", status |-> "warn",
      message |-> issue.description \o " (auto-corrected)", line |-> issue.line,
      suggestion |-> issue.fix ]

\* route.ts lines 359-365: a review issue as a result of its own
ReportedIssue(issue) ==
    [ rule |-> "ai-review", status |-> IF issue.severity = "error" THEN "error" ELSE "warn",
      message |-> issue.description, line |-> issue.line, suggestion |-> issue.fix ]

\* route.ts lines 383-385: the flush, the terminating event, and the close
Flush == << [ text |-> "" ], [ done |-> TRUE ] >>

\* route.ts line 297
PineVersionOf(req) == IF req.pineVersion = "v5" THEN "v5" ELSE "v6"

InitChat ==
    /\ request \in Requests
    /\ stream \in Replies
    /\ llmCalls = <<>>
    /\ fullContent = ""
    /\ generatedCode = NoCode
    /\ allStaticResults = <<>>
    /\ reviewResult = NoReview
    /\ events = <<>>
    /\ pcChat = "streaming"
    /\ raw = NoRaw
    /\ disk = NoFiles
    /\ docsData = JsNull
    /\ refsData = JsNull
    /\ examplesData = JsNull
    /\ indexData = JsNull
    /\ query = ""
    /\ options = NoOptions
    /\ results = <<>>
    /\ pcRAG = "idle"
    /\ code = ""
    /\ version = Omitted
    /\ findings = <<>>
    /\ pcValidate = "done"
    /\ queryTerms = <<>>
    /\ docTerms = <<>>
    /\ idf = <<>>
    /\ avgDl = NaN
    /\ k1 = DefaultK1
    /\ b = DefaultB
    /\ score = NaN
    /\ pcBM25 = "done"

\* Phase 1, one turn of the loop of lines 270-276 (Anthropic) or of lines
\* 287-292 (the other providers, where an empty delta is skipped)
StreamDelta ==
    /\ pcChat = "streaming"
    /\ stream # <<>>
    /\ LET text == Head(stream)
           taken == request.provider = "anthropic" \/ text # ""
       IN  /\ fullContent' = IF taken THEN fullContent \o text ELSE fullContent
           /\ events' = IF taken THEN Append(events, [ text |-> text ]) ELSE events
    /\ stream' = Tail(stream)
    /\ UNCHANGED <<request, llmCalls, generatedCode, allStaticResults, reviewResult, pcChat>>
    /\ UNCHANGED <<bm25Vars, ragVars, validateVars>>

\* Phase 1 throws, lines 386-393: the request was aborted, or the provider
\* failed
StreamThrows ==
    /\ pcChat = "streaming"
    /\ \E name \in { "AbortError", "Error" } :
          events' = IF name = "AbortError" THEN events
                    ELSE Append(events, [ error |-> "provider failed" ])
    /\ pcChat' = "closed"
    /\ UNCHANGED <<request, stream, llmCalls, fullContent, generatedCode, allStaticResults,
                   reviewResult>>
    /\ UNCHANGED <<bm25Vars, ragVars, validateVars>>

\* lines 314-381 from the merged static results on, up to the call of
\* reviewCode or to the end of the handler
AfterStatic(sent, allResults) ==
    /\ allStaticResults' = allResults
    /\ IF ~hasStaticErrors(allResults)
       THEN /\ events' = Append(sent, [ status |-> "reviewing" ])
            /\ llmCalls' = Append(llmCalls, [ fn |-> "reviewCode", outcome |-> "pending" ])
            /\ pcChat' = "reviewing"
       ELSE /\ events' = Append(sent, [ validation |-> allResults ]) \o Flush
            /\ llmCalls' = llmCalls
            /\ pcChat' = "closed"

\* Phase 2 once the stream has ended, lines 294-309: the code is extracted
\* and validated statically, up to the import of the transpiler when it is
\* enabled
PostGeneration ==
    /\ pcChat = "streaming"
    /\ stream = <<>>
    /\ LET extracted == extractCodeFromContent(fullContent)
           sent == Append(events, [ status |-> "validating" ])
           staticResults == IF HasCode(extracted)
                            THEN validatePineScript(extracted.value, PineVersionOf(request))
                            ELSE <<>>
       IN  /\ generatedCode' = extracted
           /\ IF ~HasCode(extracted)
              THEN /\ events' = events \o Flush
                   /\ pcChat' = "closed"
                   /\ UNCHANGED <<allStaticResults, llmCalls>>
              ELSE IF request.transpilerEnabled
              THEN /\ events' = Append(sent, [ status |-> "transpiling" ])
                   /\ allStaticResults' = staticResults
                   /\ pcChat' = "transpiling"
                   /\ UNCHANGED llmCalls
              ELSE AfterStatic(sent, staticResults)
    /\ UNCHANGED <<request, stream, fullContent, reviewResult>>
    /\ UNCHANGED <<bm25Vars, ragVars, validateVars>>

\* lines 309-318: the transpiler is imported and run
Transpiled ==
    /\ pcChat = "transpiling"
    /\ \E transpilerResults \in TranspilerResults :
          AfterStatic(events, allStaticResults \o transpilerResults)
    /\ UNCHANGED <<request, stream, fullContent, generatedCode, reviewResult>>
    /\ UNCHANGED <<bm25Vars, ragVars, validateVars>>

\* the last call of llmCalls has ended
Ended(how) == [llmCalls EXCEPT ![Len(llmCalls)].outcome = how]

\* lines 320-335 and 373-380: reviewCode resolves: with the parsed reply,
\* with the result of its own catch when the call failed, or with a reply
\* whose issues the handler cannot read (line 331 throws and the catch of
\* line 377 takes over; reviewResult is not read again)
ReviewReturns ==
    /\ pcChat = "reviewing"
    /\ \E how \in { "returned", "failed", "malformed" } :
       \E parsed \in ReviewResults :
          LET result == IF how = "returned" THEN parsed ELSE FailOpen
          IN  /\ how # "returned" => parsed = FailOpen
              /\ reviewResult' = result
              /\ IF how # "malformed" /\ result.verdict = "needs_fix" /\ Len(result.issues) > 0
                 THEN /\ events' = Append(events, [ status |-> "correcting" ])
                      /\ llmCalls' = Append(Ended(how), [ fn |-> "fixCode", outcome |-> "pending" ])
                      /\ pcChat' = "correcting"
                 ELSE /\ events' = Append(events, [ validation |-> allStaticResults ]) \o Flush
                      /\ llmCalls' = Ended(how)
                      /\ pcChat' = "closed"
    /\ UNCHANGED <<request, stream, fullContent, generatedCode, allStaticResults>>
    /\ UNCHANGED <<bm25Vars, ragVars, validateVars>>

\* lines 336-372: fixCode resolves, with the code of the reply or with null
\* when the call failed (reviewer.ts lines 168-171)
FixReturns ==
    /\ pcChat = "correcting"
    /\ \E how \in { "returned", "failed" } :
       \E response \in FixResponses :
          LET fixedCode == IF how = "failed" THEN NoCode ELSE extractCodeFromResponse(response)
              issues == reviewResult.issues
          IN  /\ events' =
                    Append(events,
                           IF HasCode(fixedCode)
                           THEN [ validation |->
                                     validatePineScript(fixedCode.value, PineVersionOf(request))
                                        \o [i \in DOMAIN issues |-> CorrectedIssue(issues[i])],
                                  correctedCode |-> fixedCode.value ]
                           ELSE [ validation |->
                                     allStaticResults
                                        \o [i \in DOMAIN issues |-> ReportedIssue(issues[i])] ])
                       \o Flush
              /\ llmCalls' = Ended(how)
    /\ pcChat' = "closed"
    /\ UNCHANGED <<request, stream, fullContent, generatedCode, allStaticResults, reviewResult>>
    /\ UNCHANGED <<bm25Vars, ragVars, validateVars>>

NextChat ==
    StreamDelta \/ StreamThrows \/ PostGeneration \/ Transpiled \/ ReviewReturns \/ FixReturns

SpecChat == InitChat /\ [][NextChat]_vars

(***************************************************************************)
(* Properties of searchRAG and of the index build (SpecRAG)                *)
(***************************************************************************)
\* the number of returned results of a type
CountType(type) == Cardinality({ i \in DOMAIN results : results[i].type = type })

\* the caps in force for the call being served
CapDocs == OrDefault(options, "maxDocs", DefaultMaxDocs)
CapRefs == OrDefault(options, "maxRefs", DefaultMaxRefs)
CapExamples == OrDefault(options, "maxExamples", DefaultMaxExamples)

\* the documents of positive score for the call being served, by the
\* collection that holds their id
Positive(collection) ==
    LET scored == Scored(query, indexData.value)
    IN  Cardinality({ i \in DOMAIN scored : MapHas(collection.value, scored[i].id) })

\* C1: the list returned by searchRAG holds at most maxDocs results of type
\* documentation, at most maxRefs of type reference and at most maxExamples
\* of type example, the defaults 3, 5 and 2 standing for an omitted option.
C1_Caps ==
    pcRAG = "returned"
        => /\ CountType("documentation") <= CapDocs
           /\ CountType("reference") <= CapRefs
           /\ CountType("example") <= CapExamples

\* C1 witness: a call without options that returns exactly 3, 5 and 2
\* results while more documents of each category have a positive score.
C1_Witness ==
    /\ pcRAG = "returned"
    /\ DOMAIN options = {}
    /\ CountType("documentation") = DefaultMaxDocs
    /\ CountType("reference") = DefaultMaxRefs
    /\ CountType("example") = DefaultMaxExamples
    /\ Positive(docsData) > DefaultMaxDocs
    /\ Positive(refsData) > DefaultMaxRefs
    /\ Positive(examplesData) > DefaultMaxExamples

\* C2: the scores of the returned list never increase from one element to
\* the next.
C2_SortedDescending ==
    pcRAG = "returned"
        => \A i, j \in DOMAIN results :
              i < j => ~JsGt(results[j].score, results[i].score)

\* C2 witness: a returned list of several distinct scores whose documents
\* stand in another order in the index.
C2_Witness ==
    /\ pcRAG = "returned"
    /\ Len(results) >= 3
    /\ JsGt(results[1].score, results[Len(results)].score)
    /\ ScoreAll(tokenize(query), extractFunctionMentions(query), indexData.value, 1, <<>>)
         # Scored(query, indexData.value)

\* C3: the build of a corpus without documents writes an index with
\* totalDocs = 0, and searchRAG returns the empty list whenever the loaded
\* index has totalDocs = 0.
C3_EmptyCorpus ==
    /\ ( /\ disk.index.exists
         /\ disk.docs.data = <<>>
         /\ disk.refs.data = <<>>
         /\ disk.examples.data = <<>> )
          => (disk.index.data.totalDocs = 0 /\ disk.index.data.documents = <<>>)
    /\ (pcRAG = "returned" /\ indexData.value.totalDocs = 0) => results = <<>>

\* C3 witness: a non-blank query answered with the empty list from the
\* index that the build of the empty corpus wrote (its avgDl is null).
C3_Witness ==
    /\ pcRAG = "returned"
    /\ tokenize(query) # <<>>
    /\ disk.index.exists
    /\ indexData.value = disk.index.data
    /\ indexData.value.totalDocs = 0
    /\ indexData.value.avgDl = Null
    /\ results = <<>>

RECURSIVE WithoutMentions(_, _)
\* the words of ws[i..] in which extractFunctionMentions finds nothing
WithoutMentions(ws, i) ==
    IF i > Len(ws) THEN <<>>
    ELSE (IF extractFunctionMentions(ws[i]) = <<>> THEN <<ws[i]>> ELSE <<>>)
         \o WithoutMentions(ws, i + 1)

\* the query without the words that hold a function mention
StripMentions(q) == Join(WithoutMentions(Split(q, " "), 1), " ")

\* a token of a mention of q occurs in terms
MentionIn(q, terms) ==
    \E i \in DOMAIN extractFunctionMentions(q) :
        Range(tokenize(extractFunctionMentions(q)[i])) \cap Range(terms) # {}

\* the score searchRAG computes for a document (lines 133-143)
ScoreFor(q, doc) ==
    DocScore(tokenize(q), extractFunctionMentions(q), doc, indexData.value)

\* C10 as stated: a document whose term list holds the token of a function
\* mention of the query scores strictly higher than it does for the query
\* without the mention, the other terms being the same.
C10_MentionBoost ==
    pcRAG = "returned"
        => \A i \in DOMAIN indexData.value.documents :
              LET doc == indexData.value.documents[i]
              IN  MentionIn(query, doc.terms)
                    => JsGt(ScoreFor(query, doc), ScoreFor(StripMentions(query), doc))

\* the scored entries of the call being served whose id is in collection
PositiveIn(collection) ==
    LET scored == Scored(query, indexData.value)
    IN  { scored[i] : i \in { j \in DOMAIN scored : MapHas(collection.value, scored[j].id) } }

\* the results of a type
ReturnedOf(type) == { results[i] : i \in { j \in DOMAIN results : results[j].type = type } }

Min(x, y) == IF x <= y THEN x ELSE y

\* the results of a type are min(cap, n) of the n positive documents of the
\* collection, and no document left out scores higher than one returned
TopOfCategory(type, collection, cap) ==
    /\ CountType(type) = Min(cap, Cardinality(PositiveIn(collection)))
    /\ \A r \in ReturnedOf(type) :
          /\ \E s \in PositiveIn(collection) : s.id = r.id /\ s.score = r.score
          /\ \A s \in PositiveIn(collection) :
                (\A r2 \in ReturnedOf(type) : r2.id # s.id) => ~JsGt(s.score, r.score)

\* C11: for each category the call returns exactly the min(cap, n)
\* highest-scoring documents of the category, n being the number of its
\* documents of positive score, whatever the other categories score; so a
\* category with a positive document and a cap of at least 1 is represented.
C11_PerCategoryTop ==
    pcRAG = "returned"
        => /\ TopOfCategory("documentation", docsData, CapDocs)
           /\ TopOfCategory("reference", refsData, CapRefs)
           /\ TopOfCategory("example", examplesData, CapExamples)
           /\ (CapDocs >= 1 /\ PositiveIn(docsData) # {}) => CountType("documentation") >= 1
           /\ (CapRefs >= 1 /\ PositiveIn(refsData) # {}) => CountType("reference") >= 1
           /\ (CapExamples >= 1 /\ PositiveIn(examplesData) # {}) => CountType("example") >= 1

\* C11 witness: all three categories are returned, one of them cut at its
\* cap, while a result of another category scores lower than a document
\* that was cut.
C11_Witness ==
    /\ pcRAG = "returned"
    /\ CountType("documentation") >= 1
    /\ CountType("reference") >= 1
    /\ CountType("example") >= 1
    /\ \E s \in PositiveIn(docsData) \cup PositiveIn(refsData) \cup PositiveIn(examplesData) :
          /\ \A i \in DOMAIN results : results[i].id # s.id
          /\ \E i \in DOMAIN results : JsGt(s.score, results[i].score)

\* the four cache variables
CacheVars == <<docsData, refsData, examplesData, indexData>>

\* C12: the artifacts are read at most once per process: a call on an
\* empty cache loads the four files, and from then on no step changes the
\* cached data except a restart of the process, every call being answered
\* from the cache whatever the files on disk have become.
C12_LoadedOnce ==
    [][ /\ (docsData.null /\ pcRAG = "idle" /\ pcRAG' = "returned")
            => /\ docsData' = LoadOr(disk.docs, <<>>)
               /\ refsData' = LoadOr(disk.refs, <<>>)
               /\ examplesData' = LoadOr(disk.examples, <<>>)
               /\ indexData' = LoadOr(disk.index, EmptyIndex)
        /\ ~docsData.null
            => /\ \/ CacheVars' = CacheVars
                  \/ CacheVars' = <<JsNull, JsNull, JsNull, JsNull>> /\ pcRAG' = "idle"
               /\ (pcRAG = "idle" /\ pcRAG' = "returned")
                     => results' = searchLoaded(query', options', Cache) ]_vars

\* C12 witness: a call answered from the cache after process-docs has
\* replaced the files, with results the files on disk would not give.
C12_Witness ==
    /\ pcRAG = "returned"
    /\ ~docsData.null
    /\ disk.index.exists
    /\ indexData.value # disk.index.data
    /\ results = searchLoaded(query, options, Cache)
    /\ results # searchLoaded(query, options, LoadAll(disk, Cache))

\* a file loadJson can read
Readable(file) == file.exists /\ file.parses

\* C13: whatever subset of the four files is missing or does not parse,
\* searchRAG returns a list and does not throw: a collection that cannot
\* be read is the empty list, an index that cannot be read has no
\* documents and the call returns the empty list.
C13_NeverThrows ==
    /\ pcRAG # "threw"
    /\ pcRAG = "returned"
          => /\ ~Readable(disk.docs) => docsData.value = <<>>
             /\ ~Readable(disk.refs) => refsData.value = <<>>
             /\ ~Readable(disk.examples) => examplesData.value = <<>>
             /\ ~Readable(disk.index)
                   => (indexData.value.totalDocs = 0 /\ results = <<>>)
             /\ \A i \in DOMAIN results :
                   results[i].type \in { "documentation", "reference", "example" }

\* C13 witness: a call that returns results of the collections that are
\* left when one collection is missing and another does not parse.
C13_Witness ==
    /\ pcRAG = "returned"
    /\ \E f \in { "docs", "refs", "examples" } : disk[f] = Missing
    /\ \E f \in { "docs", "refs", "examples" } : disk[f] = Unparsable
    /\ Readable(disk.index)
    /\ results # <<>>

RECURSIVE MentionTokens(_, _)
\* the tokens of the mentions of ms[i..], one entry for every pair
\* (mention, token of the mention)
MentionTokens(ms, i) ==
    IF i > Len(ms) THEN <<>> ELSE tokenize(ms[i]) \o MentionTokens(ms, i + 1)

\* the number of pairs (mention of q, token of the mention) whose token is
\* in terms
BoostCount(q, terms) ==
    LET toks == MentionTokens(extractFunctionMentions(q), 1)
    IN  Cardinality({ i \in DOMAIN toks : toks[i] \in Range(terms) })

RECURSIVE TimesBoost(_, _)
\* sc multiplied by 1.5, n times
TimesBoost(sc, n) == IF n = 0 THEN sc ELSE TimesBoost(JsMul(sc, <<3, 2>>), n - 1)

\* the BM25 score of the query of the call for a document, before any boost
BaseScore(doc) ==
    scoreBM25(tokenize(query), doc.terms, indexData.value.idf, indexData.value.avgDl,
              DefaultK1, DefaultB)

\* C21: the score searchRAG gives a document is its BM25 base score
\* multiplied by 1.5 once for every pair (function mention of the raw query,
\* token of the mention) whose token is in the document's terms; a base
\* score of 0 stays 0, and a returned result carries that score.
C21_BoostStacks ==
    pcRAG = "returned"
        => \A i \in DOMAIN indexData.value.documents :
              LET doc == indexData.value.documents[i]
                  expected == TimesBoost(BaseScore(doc), BoostCount(query, doc.terms))
              IN  /\ ScoreFor(query, doc) = expected
                  /\ BaseScore(doc) = <<0, 1>> => ScoreFor(query, doc) = <<0, 1>>
                  /\ \A r \in DOMAIN results :
                        results[r].id = doc.id => results[r].score = expected

\* C21 witness: a returned result whose document holds the tokens of two
\* mentions of the query, with a score above its base score.
C21_Witness ==
    /\ pcRAG = "returned"
    /\ \E i \in DOMAIN indexData.value.documents, r \in DOMAIN results :
          LET doc == indexData.value.documents[i]
          IN  /\ results[r].id = doc.id
              /\ BoostCount(query, doc.terms) >= 2
              /\ JsGt(results[r].score, BaseScore(doc))
              /\ results[r].score = JsMul(JsMul(BaseScore(doc), <<3, 2>>), <<3, 2>>)

(***************************************************************************)
(* Properties of a run of process-docs (SpecBuild)                         *)
(***************************************************************************)
\* the run has written the four files
Rebuilt == disk.index.exists

\* the number of entries of a collection, or of documents of the index,
\* that carry the id
Carrying(entries, id) == Cardinality({ i \in DOMAIN entries : entries[i].id = id })

\* C25: after a rebuild the ids are unique across the three collections
\* and the index: every document of the index belongs to exactly one
\* collection, every entry of a collection is in the index exactly once,
\* and totalDocs is the number of entries of the three collections.
C25_UniqueIds ==
    Rebuilt
        => LET docs == disk.docs.data
               refs == disk.refs.data
               examples == disk.examples.data
               documents == disk.index.data.documents
           IN  /\ \A i \in DOMAIN documents :
                     Carrying(docs, documents[i].id) + Carrying(refs, documents[i].id)
                        + Carrying(examples, documents[i].id) = 1
               /\ \A i \in DOMAIN docs : Carrying(documents, docs[i].id) = 1
               /\ \A i \in DOMAIN refs : Carrying(documents, refs[i].id) = 1
               /\ \A i \in DOMAIN examples : Carrying(documents, examples[i].id) = 1
               /\ disk.index.data.totalDocs = Len(docs) + Len(refs) + Len(examples)

\* C25 witness: a rebuild that wrote entries of the three collections, the
\* references from a function file and from flat files.
C25_Witness ==
    /\ Rebuilt
    /\ Len(disk.docs.data) >= 1
    /\ Len(disk.refs.data) >= 4
    /\ Len(disk.examples.data) >= 1
    /\ disk.index.data.totalDocs = Len(disk.index.data.documents)
    /\ disk.index.data.totalDocs >= 6

\* the raw file a chunk was cut from
SourceOf(chunk) == CHOOSE f \in Range(raw.docs) : RelPath(f) = chunk.source

\* the positions at which sub occurs in text
Occurrences(text, sub) ==
    { o \in 1..(Len(text) - Len(sub) + 1) : SubSeq(text, o, o + Len(sub) - 1) = sub }

\* the level-2 and level-3 headers of a file: position, line and text
HeadersOf(text) ==
    { [ pos |-> c,
        line |-> SubSeq(text, c, NextSep(text, "\n", c) - 1),
        title |-> trim(Group2(SubSeq(text, c, Len(text)),
                              FirstMatch(HeaderPattern, SubSeq(text, c, Len(text))))) ] :
        c \in { d \in HeaderCuts(text) \cup { 1 } :
                  FirstMatch(HeaderPattern, SubSeq(text, d, Len(text))) # NoMatch } }

\* the header h stands in the content or before it: the content holds the
\* line of h, or the first line of the content occurs in the file after h
NotAfter(h, content, text) ==
    \/ Includes(content, h.line)
    \/ \E o \in Occurrences(text, Split(content, "\n")[1]) : h.pos < o

\* C26 as stated, in its weakest reading: the title of a chunk is the name
\* of its file or the text of a header that stands in the chunk's content
\* or before it in the file, never a header that appears only after the
\* content.
C26_TitlePrecedes ==
    Rebuilt
        => \A i \in DOMAIN disk.docs.data :
              LET chunk == disk.docs.data[i]
                  text == SourceOf(chunk).text
              IN  \/ chunk.title = SourceOf(chunk).name
                  \/ \E h \in HeadersOf(text) :
                        h.title = chunk.title /\ NotAfter(h, chunk.content, text)

\* C27 as stated: a header-delimited section that alone exceeds 800
\* estimated tokens is never emitted whole as one chunk, whatever stands
\* before it in the file.
C27_LargeSectionSplit ==
    Rebuilt
        => \A i \in DOMAIN disk.docs.data :
              LET chunk == disk.docs.data[i]
                  parts == HeaderParts(SourceOf(chunk).text)
              IN  \A k \in DOMAIN parts :
                     (/\ estimateTokens(parts[k]) > ChunkTokenLimit
                      /\ Len(chunk.content) >= Len(trim(parts[k])))
                        => ~Includes(chunk.content, trim(parts[k]))

\* the part of C27 that holds: a section above the limit that is its whole
\* file is cut by line
C27_LoneSectionSplit ==
    Rebuilt
        => \A i \in DOMAIN disk.docs.data :
              LET chunk == disk.docs.data[i]
                  parts == HeaderParts(SourceOf(chunk).text)
              IN  (/\ Len(parts) = 1
                   /\ estimateTokens(parts[1]) > ChunkTokenLimit
                   /\ Len(chunk.content) >= Len(trim(parts[1])))
                     => ~Includes(chunk.content, trim(parts[1]))

\* the names under the headers of one flat reference file
FlatNames(file) ==
    { DropCallParens(Group1(file.sections[j], FirstMatch(FunctionHeaderPattern, file.sections[j]))) :
        j \in { k \in DOMAIN file.sections :
                   FirstMatch(FunctionHeaderPattern, file.sections[k]) # NoMatch } }

\* every name of every flat file of the tree has a reference entry whose
\* signature is the bare name
FlatEntriesPresent ==
    \A i \in DOMAIN raw.flat :
       \A name \in FlatNames(raw.flat[i]) :
          \E r \in DOMAIN disk.refs.data :
             /\ disk.refs.data[r].namespace = raw.flat[i].name
             /\ disk.refs.data[r].function = name
             /\ disk.refs.data[r].signature = name

\* C29 as stated: after a run, the flat reference files that exist are
\* parsed into reference entries with signature equal to the bare name,
\* whether or not the directory reference/functions exists.
C29_FlatFilesParsed == Rebuilt => FlatEntriesPresent

\* the part of C29 that holds: the flat files are parsed when the directory
\* reference/functions exists
C29_FlatFilesWithDirectory == (Rebuilt /\ raw.funcDir) => FlatEntriesPresent

\* the namespace.word calls keyword extraction finds in a text
KeywordCalls(text) == Range(MatchAll(KeywordFuncPattern, text))

\* C28 as stated: the namespace list of function mentions and of the
\* functions used by example scripts is that of keyword extraction: every
\* ns.word that keyword extraction finds in the query is a function
\* mention, and every one it finds in an example script is a used function.
C28_SameAllowList ==
    /\ pcRAG = "returned" => KeywordCalls(query) \subseteq Range(extractFunctionMentions(query))
    /\ Rebuilt
         => \A i \in DOMAIN raw.scripts :
               KeywordCalls(raw.scripts[i].code)
                  \subseteq Range(disk.examples.data[i].functions_used)

\* the part of C28 that holds: what is a function mention in a query is a
\* used function in a script, the two lists being the same one
C28_MentionsAsUsed ==
    Rebuilt
        => \A i \in DOMAIN raw.scripts :
              Range(MatchAll(NamespaceCallPattern, raw.scripts[i].code))
                 \subseteq Range(disk.examples.data[i].functions_used)

(***************************************************************************)
(* Properties of the /api/chat pipeline (SpecChat)                         *)
(***************************************************************************)
ValidationEvents == { i \in DOMAIN events : "validation" \in DOMAIN events[i] }

\* the response ended with the terminating event
Done == pcChat = "closed" /\ events # <<>> /\ "done" \in DOMAIN events[Len(events)]

RECURSIVE SentText(_)
\* the text of the text events among the first n events
SentText(n) ==
    IF n = 0 THEN ""
    ELSE SentText(n - 1) \o (IF "text" \in DOMAIN events[n] THEN events[n].text ELSE "")

\* the reviewer is called only on results without an error
ReviewOnlyWithoutErrors ==
    llmCalls # <<>> => \A i \in DOMAIN allStaticResults : allStaticResults[i].status # "error"

\* a review that failed leaves the static results as the validation event
FailOpenSendsStatic ==
    (\E k \in DOMAIN llmCalls :
        llmCalls[k].fn = "reviewCode" /\ llmCalls[k].outcome \in { "failed", "malformed" })
       => \E v \in ValidationEvents : events[v] = [ validation |-> allStaticResults ]

\* there is one validation event, sent after the whole generated text and
\* followed by the flush and the terminating event only
OneValidationEvent ==
    /\ Cardinality(ValidationEvents) = 1
    /\ \A v \in ValidationEvents : v = Len(events) - 2 /\ SentText(v) = fullContent

EffectiveVersion == IF version = Omitted THEN "v6" ELSE version

\* C4: for non-blank code the result is checkStructure, checkDeprecated,
\* checkV6Specific and checkLimits concatenated in this order; under v5 the
\* deprecated and version-specific modules contribute nothing; an omitted
\* version is v6.
C4_Concatenation ==
    /\ checkDeprecated(code, "v5") = <<>>
    /\ checkV6Specific(code, "v5") = <<>>
    /\ (pcValidate = "done" /\ trim(code) # "")
          => /\ findings = checkStructure(code)
                           \o checkDeprecated(code, EffectiveVersion)
                           \o checkV6Specific(code, EffectiveVersion)
                           \o checkLimits(code)
             /\ version = "v5" => findings = checkStructure(code) \o checkLimits(code)
             /\ version = Omitted => findings = validatePineScript(code, "v6")

\* C4 witness: a call without version to which each of the four modules
\* contributes a finding.
C4_Witness ==
    /\ pcValidate = "done"
    /\ version = Omitted
    /\ checkDeprecated(code, "v6") # <<>>
    /\ checkV6Specific(code, "v6") # <<>>
    /\ checkLimits(code) # <<>>
    /\ Len(findings) = Len(checkStructure(code)) + Len(checkDeprecated(code, "v6"))
                       + Len(checkV6Specific(code, "v6")) + Len(checkLimits(code))

\* C5: for empty or whitespace-only code the result is the empty list, so
\* no result of validatePineScript holds an empty-script finding.
C5_BlankCode ==
    pcValidate = "done"
        => /\ trim(code) = "" => findings = <<>>
           /\ \A i \in DOMAIN findings : findings[i].rule # "empty-script"

\* C5 witness: a call on whitespace-only code, for which checkStructure
\* itself reports empty-script, that returned the empty list.
C5_Witness ==
    /\ pcValidate = "done"
    /\ code # ""
    /\ trim(code) = ""
    /\ checkStructure(code)[1].rule = "empty-script"
    /\ findings = <<>>

\* findings holds an error of the rule
HasError(rule) ==
    \E i \in DOMAIN findings : findings[i].rule = rule /\ findings[i].status = "error"

\* the structural rules the script in code breaks
NoVersionLine ==
    ~StartsWith(trim(Split(code, "\n")[FirstNonEmpty(Split(code, "\n"))]), "//@version=")
Declares(name) == Test(CallPattern(name), code)
OddQuotes(line) ==
    /\ ~IsCommentLine(line)
    /\ Len(MatchAll(UnescapedQuotePattern, WithoutComments(line))) % 2 = 1

\* C15: for non-blank code no structural check hides another: each rule
\* that is broken is reported as an error of the same run, so a script
\* without version line, without declaration and with unequal parenthesis
\* counts gets missing-version, missing-declaration and unbalanced-parens.
C15_NoShortCircuit ==
    (pcValidate = "done" /\ trim(code) # "")
        => /\ NoVersionLine => HasError("missing-version")
           /\ (~Declares("indicator") /\ ~Declares("strategy") /\ ~Declares("library"))
                 => HasError("missing-declaration")
           /\ (Declares("indicator") /\ Declares("strategy")) => HasError("dual-declaration")
           /\ CountChar(code, "(") # CountChar(code, ")") => HasError("unbalanced-parens")
           /\ CountChar(code, "[") # CountChar(code, "]") => HasError("unbalanced-brackets")
           /\ \A n \in DOMAIN Split(code, "\n") :
                 OddQuotes(Split(code, "\n")[n])
                     => \E i \in DOMAIN findings :
                           /\ findings[i].rule = "unbalanced-string"
                           /\ findings[i].status = "error"
                           /\ findings[i].line = n

\* C15 witness: a script without version line, without declaration and
\* with an unclosed parenthesis, reported with the three errors at once.
C15_Witness ==
    /\ pcValidate = "done"
    /\ trim(code) # ""
    /\ NoVersionLine
    /\ ~Declares("indicator") /\ ~Declares("strategy") /\ ~Declares("library")
    /\ CountChar(code, "(") > CountChar(code, ")")
    /\ HasError("missing-version")
    /\ HasError("missing-declaration")
    /\ HasError("unbalanced-parens")

\* the findings that carry a line number are in non-decreasing line order
LineOrdered(fs) ==
    \A i, j \in DOMAIN fs :
        (i < j /\ "line" \in DOMAIN fs[i] /\ "line" \in DOMAIN fs[j]) => fs[i].line <= fs[j].line

\* C20 as stated: the findings are grouped by module in module order, and
\* within each module those with a line number are in non-decreasing line
\* order.
C20_LineOrder ==
    (pcValidate = "done" /\ trim(code) # "")
        => /\ findings = checkStructure(code) \o checkDeprecated(code, EffectiveVersion)
                          \o checkV6Specific(code, EffectiveVersion) \o checkLimits(code)
           /\ LineOrdered(checkStructure(code))
           /\ LineOrdered(checkDeprecated(code, EffectiveVersion))
           /\ LineOrdered(checkV6Specific(code, EffectiveVersion))
           /\ LineOrdered(checkLimits(code))

\* C20 amended: the findings are grouped by module in module order; those
\* of checkStructure and of checkDeprecated are in non-decreasing line
\* order; those of checkV6Specific are the findings of its three passes
\* (na casts, mixed fills, input def) one pass after the other, each pass
\* in non-decreasing line order.
C20_PassOrder ==
    (pcValidate = "done" /\ trim(code) # "")
        => LET lines == Split(code, "\n")
               casts == NaCasts(lines, 1)
               fills == MixedFills(lines, 1, AssignedVars(lines, "hline"),
                                   AssignedVars(lines, "plot"))
               defs == InputDefs(lines, 1)
           IN  /\ findings = checkStructure(code) \o checkDeprecated(code, EffectiveVersion)
                              \o checkV6Specific(code, EffectiveVersion) \o checkLimits(code)
               /\ LineOrdered(checkStructure(code))
               /\ LineOrdered(checkDeprecated(code, EffectiveVersion))
               /\ EffectiveVersion = "v6"
                     => checkV6Specific(code, "v6") = casts \o fills \o defs
               /\ LineOrdered(casts) /\ LineOrdered(fills) /\ LineOrdered(defs)

\* C20 witness: a result in which the na cast of line 2 stands before the
\* input def of line 1.
C20_Witness ==
    /\ pcValidate = "done"
    /\ \E i, j \in DOMAIN findings :
          /\ i < j
          /\ findings[i].rule = "bool-na-cast"
          /\ findings[j].rule = "input-def-param"
          /\ findings[i].line > findings[j].line

(***************************************************************************)
(* Properties of the rule modules (SpecModules)                            *)
(***************************************************************************)
\* the rules of checkStructure that a script with a non-empty line can break
StructureRules ==
    { "missing-version", "missing-declaration", "dual-declaration", "unbalanced-parens",
      "unbalanced-brackets", "unbalanced-string" }

\* C14: checkStructure never returns the empty list: for blank code exactly
\* one empty-script error; for other code either error findings only, at
\* least one, or exactly one result of rule structure and status pass.
C14_StructureNeverEmpty ==
    pcValidate = "structure"
        => /\ findings # <<>>
           /\ trim(code) = ""
                 => (Len(findings) = 1 /\ findings[1].rule = "empty-script"
                     /\ findings[1].status = "error")
           /\ trim(code) # ""
                 => \/ \A i \in DOMAIN findings :
                          findings[i].status = "error" /\ findings[i].rule \in StructureRules
                    \/ (Len(findings) = 1 /\ findings[1].rule = "structure"
                        /\ findings[1].status = "pass")

\* C14 witness: a script that breaks no structural rule, answered with the
\* single pass result.
C14_Witness ==
    /\ pcValidate = "structure"
    /\ trim(code) # ""
    /\ StructureErrors(code) = <<>>
    /\ Len(findings) = 1
    /\ findings[1].status = "pass"

\* name, then white space, then an opening parenthesis, at position p of line
CallAt(line, name, p) ==
    /\ p + Len(name) - 1 <= Len(line)
    /\ SubSeq(line, p, p + Len(name) - 1) = name
    /\ \E q \in (p + Len(name))..Len(line) :
          /\ CharAt(line, q) = "("
          /\ \A r \in (p + Len(name))..(q - 1) : CharAt(line, r) \in SpaceChars

\* the call at p stands alone: no name and no dot before it
BareAt(line, name, p) ==
    /\ CallAt(line, name, p)
    /\ (p = 1 \/ CharAt(line, p - 1) \notin (WordChars \cup { "." }))

\* the call at p is written namespace.name
NamespacedAt(line, namespace, name, p) ==
    /\ CallAt(line, name, p)
    /\ p > Len(namespace) + 1
    /\ SubSeq(line, p - Len(namespace) - 1, p - 1) = namespace \o "."

\* findings holds an error of the rule for line n
FlaggedAt(rule, n) ==
    \E i \in DOMAIN findings :
        findings[i].rule = rule /\ findings[i].status = "error" /\ findings[i].line = n

\* the calls v6 moved into a namespace
Moved ==
    { [name |-> "security", namespace |-> "request", rule |-> "deprecated-security"],
      [name |-> "tostring", namespace |-> "str", rule |-> "deprecated-tostring"],
      [name |-> "tonumber", namespace |-> "str", rule |-> "deprecated-tonumber"] }

\* C16: under v6 a line that is no comment and holds a bare call of
\* security, tostring or tonumber gets the rule's error, and a line whose
\* calls of the name are all written request.security, str.tostring or
\* str.tonumber gets none.
C16_BareVersusNamespaced ==
    (pcValidate = "deprecated" /\ version = "v6")
        => \A m \in Moved : \A n \in DOMAIN Split(code, "\n") :
              LET line == Split(code, "\n")[n]
              IN  /\ (~IsCommentLine(line) /\ \E p \in 1..Len(line) : BareAt(line, m.name, p))
                        => FlaggedAt(m.rule, n)
                  /\ (\A p \in 1..Len(line) :
                          CallAt(line, m.name, p) => NamespacedAt(line, m.namespace, m.name, p))
                        => ~FlaggedAt(m.rule, n)

\* C16 witness: a line holding str.tostring( and a bare tostring( that is
\* reported, once, for the bare call.
C16_Witness ==
    /\ pcValidate = "deprecated"
    /\ version = "v6"
    /\ \E p \in 1..Len(code) : NamespacedAt(code, "str", "tostring", p)
    /\ \E p \in 1..Len(code) : BareAt(code, "tostring", p)
    /\ Len(findings) = 1
    /\ FlaggedAt("deprecated-tostring", 1)

\* the calls of the plot family in the whole text of code: the places where
\* a member of the family starts a word and is followed by white space and
\* an opening parenthesis
PlotFamilyCalls ==
    Cardinality({ p \in 1..Len(code) :
                    /\ (p = 1 \/ CharAt(code, p - 1) \notin WordChars)
                    /\ \E i \in DOMAIN PlotFamily : CallAt(code, PlotFamily[i], p) })

\* the findings of a rule
FindingsOf(rule) == { findings[i] : i \in { j \in DOMAIN findings : findings[j].rule = rule } }

\* C17 as stated: 64 calls of the plot family give no limit finding at
\* all, 65 give plot-limit-exceeded with status error and 65 in the message.
C17_NoFindingAt64 ==
    pcValidate = "limits"
        => /\ PlotFamilyCalls = PlotLimit => findings = <<>>
           /\ PlotFamilyCalls = PlotLimit + 1
                 => \E f \in FindingsOf("plot-limit-exceeded") :
                       f.status = "error" /\ Includes(f.message, ToString(PlotLimit + 1))

\* C17 amended: 64 calls of the plot family give no plot-limit-exceeded
\* but the plot-limit-warning, with status warn and 64 in its message; 65
\* give plot-limit-exceeded with status error and 65 in its message, and
\* no warning.
C17_WarningAt64 ==
    pcValidate = "limits"
        => /\ PlotFamilyCalls = PlotLimit
                 => /\ FindingsOf("plot-limit-exceeded") = {}
                    /\ \E f \in FindingsOf("plot-limit-warning") :
                          f.status = "warn" /\ Includes(f.message, ToString(PlotLimit))
           /\ PlotFamilyCalls = PlotLimit + 1
                 => /\ FindingsOf("plot-limit-warning") = {}
                    /\ \E f \in FindingsOf("plot-limit-exceeded") :
                          f.status = "error" /\ Includes(f.message, ToString(PlotLimit + 1))

\* C17 witness: a script of exactly 64 calls answered with the warning
\* alone.
C17_Witness ==
    /\ pcValidate = "limits"
    /\ PlotFamilyCalls = PlotLimit
    /\ Len(findings) = 1
    /\ findings[1].rule = "plot-limit-warning"

\* C18: with N the number of calls of the plot family in the whole text,
\* plot-limit-exceeded (error) is emitted iff N > 64, plot-limit-warning
\* (warn) iff 50 < N <= 64, neither iff N <= 50, never both, and the
\* message of either holds N.
C18_PlotThresholds ==
    pcValidate = "limits"
        => LET N == PlotFamilyCalls
           IN  /\ (FindingsOf("plot-limit-exceeded") # {}) <=> (N > PlotLimit)
               /\ (FindingsOf("plot-limit-warning") # {}) <=> (PlotWarning < N /\ N <= PlotLimit)
               /\ ~(FindingsOf("plot-limit-exceeded") # {} /\ FindingsOf("plot-limit-warning") # {})
               /\ \A f \in FindingsOf("plot-limit-exceeded") :
                     f.status = "error" /\ Includes(f.message, ToString(N))
               /\ \A f \in FindingsOf("plot-limit-warning") :
                     f.status = "warn" /\ Includes(f.message, ToString(N))

\* C18 witness: a script that uses every member of the family over several
\* lines, with more calls than the limit, answered with the error alone.
C18_Witness ==
    /\ pcValidate = "limits"
    /\ PlotFamilyCalls > PlotLimit
    /\ \A i \in DOMAIN PlotFamily : \E p \in 1..Len(code) : CallAt(code, PlotFamily[i], p)
    /\ Len(Split(code, "\n")) > 1
    /\ FindingsOf("plot-limit-exceeded") # {}
    /\ FindingsOf("plot-limit-warning") = {}

\* a comment line that is no version annotation, with its text removed
BlankComment(line) ==
    IF IsCommentLine(line) /\ ~StartsWith(trim(line), "//@version=") THEN "//" ELSE line

\* the script with the text of its comment lines removed
BlankComments(src) ==
    Join([n \in DOMAIN Split(src, "\n") |-> BlankComment(Split(src, "\n")[n])], "\n")

\* C19 as stated: in each of the four rule modules the text of a comment
\* line, the version annotation apart, produces and changes no finding:
\* the module reports what it reports for the script without that text.
C19_CommentsSkipped ==
    /\ pcValidate = "structure" => findings = checkStructure(BlankComments(code))
    /\ pcValidate = "deprecated" => findings = checkDeprecated(BlankComments(code), version)
    /\ pcValidate = "v6-specific" => findings = checkV6Specific(BlankComments(code), version)
    /\ pcValidate = "limits" => findings = checkLimits(BlankComments(code))

\* the declaration kinds that occur in the script in code
DeclaredKinds == { k \in { "indicator", "strategy", "library" } : Declares(k) }

\* C22 as stated: checkStructure reports missing-declaration exactly when
\* none of indicator(, strategy(, library( occurs in the code, and reports
\* some error whenever more than one of the three kinds occurs.
C22_ExactlyOneDeclaration ==
    (pcValidate = "structure" /\ FirstNonEmpty(Split(code, "\n")) # 0)
        => /\ HasError("missing-declaration") <=> DeclaredKinds = {}
           /\ Cardinality(DeclaredKinds) > 1
                 => \E i \in DOMAIN findings : findings[i].status = "error"

RECURSIVE ClosedFrom(_, _, _)
\* reading line from position i with the literal opened by the delimiter
\* open ("" outside a literal), every literal is closed at the end of the
\* line; a backslash escapes the next character of a literal and // outside
\* a literal starts the trailing comment
ClosedFrom(line, i, open) ==
    IF i > Len(line) THEN open = ""
    ELSE LET c == CharAt(line, i)
         IN  IF open = ""
             THEN IF c = "/" /\ i < Len(line) /\ CharAt(line, i + 1) = "/" THEN TRUE
                  ELSE IF c \in { "\"", "'" } THEN ClosedFrom(line, i + 1, c)
                  ELSE ClosedFrom(line, i + 1, "")
             ELSE IF c = "\\" THEN ClosedFrom(line, i + 2, open)
             ELSE IF c = open THEN ClosedFrom(line, i + 1, "")
             ELSE ClosedFrom(line, i + 1, open)

\* the string literals of the line are all closed
LiteralsClosed(line) == ClosedFrom(line, 1, "")

\* unbalanced-string is reported at line n
UnbalancedAt(n) ==
    \E i \in DOMAIN findings :
        /\ findings[i].rule = "unbalanced-string"
        /\ "line" \in DOMAIN findings[i]
        /\ findings[i].line = n

\* C23 as stated: for every line of non-blank code that is not a comment
\* line, checkStructure reports unbalanced-string at the line's 1-based
\* number exactly when the line, without its trailing // comment, holds an
\* odd number of unescaped double quotes; a line whose string literals are
\* all closed is not reported.
C23_UnbalancedString ==
    (pcValidate = "structure" /\ FirstNonEmpty(Split(code, "\n")) # 0)
        => \A n \in DOMAIN Split(code, "\n") :
              LET line == Split(code, "\n")[n]
              IN  ~IsCommentLine(line)
                    => /\ UnbalancedAt(n) <=> OddQuotes(line)
                       /\ LiteralsClosed(line) => ~UnbalancedAt(n)

\* the first half of C23 alone: the report follows the parity of the
\* unescaped double quotes left after the removal of // and what follows it
C23_QuoteParity ==
    (pcValidate = "structure" /\ FirstNonEmpty(Split(code, "\n")) # 0)
        => \A n \in DOMAIN Split(code, "\n") :
              ~IsCommentLine(Split(code, "\n")[n])
                 => (UnbalancedAt(n) <=> OddQuotes(Split(code, "\n")[n]))

\* some line of the script in code that is not a comment line assigns the
\* variable v from a call of name
AssignedFrom(v, name) ==
    \E j \in DOMAIN Split(code, "\n") :
        /\ ~IsCommentLine(Split(code, "\n")[j])
        /\ Test(Cat(<< WordB, Lit(v), Star(SpaceCh), Lit("="), Star(SpaceCh), Lit(name),
                       Star(SpaceCh), Lit("(") >>), Split(code, "\n")[j])

\* one of v, w is assigned from hline and the other from plot
Mixed(v, w) ==
    \/ AssignedFrom(v, "hline") /\ AssignedFrom(w, "plot")
    \/ AssignedFrom(v, "plot") /\ AssignedFrom(w, "hline")

\* the two first arguments of the fill call of a line
FillArgs(line) ==
    << Group1(line, FirstMatch(FillPattern, line)), Group2(line, FirstMatch(FillPattern, line)) >>

\* C24: under v6, a line that is not a comment line and holds fill(a, b, ...)
\* is reported as fill-mixed-types, at its number, exactly when one of a, b
\* is assigned from hline(...) and the other from plot(...) on some line of
\* the file, before or after the call and in either argument order; no
\* other line is reported.
C24_FillMixedTypes ==
    (pcValidate = "v6-specific" /\ version = "v6")
        => \A n \in DOMAIN Split(code, "\n") :
              LET line == Split(code, "\n")[n]
              IN  IF ~IsCommentLine(line) /\ Test(FillPattern, line)
                  THEN FlaggedAt("fill-mixed-types", n)
                          <=> Mixed(FillArgs(line)[1], FillArgs(line)[2])
                  ELSE ~FlaggedAt("fill-mixed-types", n)

\* C24 witness: a fill call on the first line, its first argument assigned
\* from plot and its second from hline on later lines, is reported.
C24_Witness ==
    /\ pcValidate = "v6-specific"
    /\ version = "v6"
    /\ Test(FillPattern, Split(code, "\n")[1])
    /\ AssignedFrom(FillArgs(Split(code, "\n")[1])[1], "plot")
    /\ AssignedFrom(FillArgs(Split(code, "\n")[1])[2], "hline")
    /\ FlaggedAt("fill-mixed-types", 1)

(***************************************************************************)
(* Properties of scoreBM25 (SpecBM25)                                      *)
(***************************************************************************)
ScoreOf(q, d) == scoreBM25(q, d, idf, avgDl, k1, b)

RECURSIVE WeightedSum(_, _, _)
\* sum over the distinct terms ds[i..] of (occurrences in q) * (score of the
\* one-term query)
WeightedSum(ds, i, q) ==
    IF i > Len(ds) THEN Num(0)
    ELSE JsAdd(JsMul(Num(Count(ds[i], q)), ScoreOf(<<ds[i]>>, docTerms)),
               WeightedSum(ds, i + 1, q))

C7_ZeroWithoutOverlap ==
    (pcBM25 = "done" /\ Range(queryTerms) \cap Range(docTerms) = {})
        => score = Num(0)

\* C8 as stated: for a one-term query whose term occurs exactly once in two
\* documents, b = 0 gives both documents the same score and b > 0 gives the
\* shorter document a strictly higher score.
C8_LengthNormalisation ==
    (pcBM25 = "done" /\ Len(queryTerms) = 1 /\ Count(queryTerms[1], docTerms) = 1)
        => \A d2 \in DocTermLists :
              (Count(queryTerms[1], d2) = 1 /\ Len(d2) > Len(docTerms))
                  => IF b = Num(0)
                     THEN JsEq(score, ScoreOf(queryTerms, d2))
                     ELSE JsGt(score, ScoreOf(queryTerms, d2))

\* C9 as stated: with query, idf table, avgDl and document length fixed, a
\* document holding more occurrences of a query term of positive idf (the
\* other query terms occurring as often as before) scores strictly higher.
C9_TermFrequencyMonotone ==
    pcBM25 = "done"
        => \A i \in DOMAIN queryTerms : \A d2 \in DocTermLists :
              LET t == queryTerms[i]
              IN  ( /\ t \in DOMAIN idf
                    /\ JsGt(idf[t], Num(0))
                    /\ Len(d2) = Len(docTerms)
                    /\ Count(t, d2) > Count(t, docTerms)
                    /\ \A u \in Range(queryTerms) \ { t } :
                          Count(u, d2) = Count(u, docTerms) )
                  => JsGt(ScoreOf(queryTerms, d2), score)

====
